---- MODULE Spec2Model ----
(***************************************************************************)
(* A model of the spread-lang interpreter: the Cell value model and its    *)
(* arithmetic (table.rs), the Table store and its CSV rendering            *)
(* (table.rs), the closure engine (closure.rs) and the line dispatcher of  *)
(* the VM (compiler.rs).                                                   *)
(*                                                                         *)
(* Strings are TLA+ strings, read character by character with SubSeq.      *)
(* A Number is an f64 of the source; the model carries it as a normalised  *)
(* fraction n/d (d > 0), which is exact for the values the bounded inputs  *)
(* produce (small integers and their quotients).  A Result<T> is a record  *)
(* with a field ok and, when it failed, the error's kind in err; a panic   *)
(* of the process is the kind "Panic".                                     *)
(***************************************************************************)
EXTENDS Integers, Sequences, FiniteSets, TLC

VARIABLES
    code_text,      \* VM.code_text: the source text being interpreted
    pointer,        \* VM.pointer: byte cursor into code_text
    tables,         \* VM.tables: sequence of Table records
    tables_idx,     \* VM.tables_idx: table name -> 0-based index into tables
    closure_idx,    \* VM.closure_idx: closure name -> 0-based index into closures
    closures,       \* VM.closures: sequence of TableClosure records
    result,         \* what the last interpreted line returned ("Ok" or the error kind)
    stdout,         \* the table text the last line printed (view), "" otherwise
    cellA,          \* left operand of the Cell operation under study
    cellB,          \* right operand of the Cell operation under study
    cellOp,         \* the operator symbol applied to (cellA, cellB), "" if none was
    cellExpr,       \* the postfix expression evaluated on them, "" if none was
    cellRes,        \* the Result<Cell> of that operation or expression
    call,           \* the function called on its own: [fn, args], fn "" if none was
    ret,            \* what that call returned: a Result
    batch           \* the driver of main.rs that feeds the VM a script line by line

vars == <<code_text, pointer, tables, tables_idx, closure_idx, closures,
          result, stdout, cellA, cellB, cellOp, cellExpr, cellRes, call, ret, batch>>

vmVars == <<code_text, pointer, tables, tables_idx, closure_idx, closures,
            result, stdout, batch>>

cellVars == <<cellA, cellB, cellOp, cellExpr, cellRes>>

callVars == <<call, ret>>

(***************************************************************************)
(* Bounds of the model.                                                    *)
(***************************************************************************)
MaxRows == 2
MaxCols == 2
MaxNum == 12
MaxStrLen == 6
FracDigitsMax == 16

(***************************************************************************)
(* Strings: the std operations the source uses.                            *)
(***************************************************************************)
Char(s, i) == SubSeq(s, i, i)

StrFrom(s, i) == SubSeq(s, i, Len(s))

IsWhitespace(c) == c \in {" ", "\t", "\n", "\r"}

IsDigit(c) == c \in {"0", "1", "2", "3", "4", "5", "6", "7", "8", "9"}

DigitVal(c) ==
    CASE c = "0" -> 0 [] c = "1" -> 1 [] c = "2" -> 2 [] c = "3" -> 3
      [] c = "4" -> 4 [] c = "5" -> 5 [] c = "6" -> 6 [] c = "7" -> 7
      [] c = "8" -> 8 [] c = "9" -> 9

StartsWith(s, p) == Len(s) >= Len(p) /\ SubSeq(s, 1, Len(p)) = p

EndsWith(s, p) == Len(s) >= Len(p) /\ SubSeq(s, Len(s) - Len(p) + 1, Len(s)) = p

RECURSIVE TrimStart(_)
TrimStart(s) ==
    IF Len(s) > 0 /\ IsWhitespace(Char(s, 1)) THEN TrimStart(StrFrom(s, 2)) ELSE s

RECURSIVE TrimEnd(_)
TrimEnd(s) ==
    IF Len(s) > 0 /\ IsWhitespace(Char(s, Len(s)))
    THEN TrimEnd(SubSeq(s, 1, Len(s) - 1))
    ELSE s

Trim(s) == TrimEnd(TrimStart(s))

\* str::find(pat): the 1-based position of the first occurrence at or after i, 0 if none
RECURSIVE FindFrom(_, _, _)
FindFrom(s, pat, i) ==
    IF i + Len(pat) - 1 > Len(s) THEN 0
    ELSE IF SubSeq(s, i, i + Len(pat) - 1) = pat THEN i
    ELSE FindFrom(s, pat, i + 1)

Find(s, pat) == FindFrom(s, pat, 1)

\* str::split(c): the pieces between the occurrences of c, empty pieces kept
RECURSIVE Split(_, _)
Split(s, c) ==
    LET at == Find(s, c)
    IN  IF at = 0 THEN <<s>>
        ELSE <<SubSeq(s, 1, at - 1)>> \o Split(StrFrom(s, at + 1), c)

\* str::split_once(c): the text before and after the first c
SplitOnce(s, c) ==
    LET at == Find(s, c)
    IN  IF at = 0 THEN [ok |-> FALSE, l |-> "", r |-> ""]
        ELSE [ok |-> TRUE, l |-> SubSeq(s, 1, at - 1), r |-> StrFrom(s, at + 1)]

\* str::split_whitespace(): the maximal runs of non-whitespace characters
RECURSIVE SplitWhitespace(_)
RECURSIVE TokenEnd(_, _)
TokenEnd(s, i) ==
    IF i > Len(s) \/ IsWhitespace(Char(s, i)) THEN i ELSE TokenEnd(s, i + 1)

SplitWhitespace(s) ==
    LET t == TrimStart(s)
    IN  IF t = "" THEN <<>>
        ELSE LET e == TokenEnd(t, 1)
             IN  <<SubSeq(t, 1, e - 1)>> \o SplitWhitespace(StrFrom(t, e))

\* [&str]::join(sep)
RECURSIVE Join(_, _)
Join(parts, sep) ==
    IF parts = <<>> THEN ""
    ELSE IF Len(parts) = 1 THEN parts[1]
    ELSE parts[1] \o sep \o Join(Tail(parts), sep)

\* str::replace(pat, ""): every non-overlapping occurrence of pat removed
RECURSIVE RemoveAll(_, _)
RemoveAll(s, pat) ==
    IF pat = "" THEN s
    ELSE LET at == Find(s, pat)
         IN  IF at = 0 THEN s
             ELSE SubSeq(s, 1, at - 1) \o RemoveAll(StrFrom(s, at + Len(pat)), pat)

RECURSIVE AllDigits(_)
AllDigits(s) == s = "" \/ (IsDigit(Char(s, 1)) /\ AllDigits(StrFrom(s, 2)))

RECURSIVE StrToNat(_)
StrToNat(s) ==
    IF s = "" THEN 0
    ELSE 10 * StrToNat(SubSeq(s, 1, Len(s) - 1)) + DigitVal(Char(s, Len(s)))

RECURSIVE Pow10(_)
Pow10(k) == IF k = 0 THEN 1 ELSE 10 * Pow10(k - 1)

\* str::parse::<usize>(): an optional '+' and at least one digit
ParseUsize(s) ==
    LET body == IF StartsWith(s, "+") THEN StrFrom(s, 2) ELSE s
        good == body # "" /\ AllDigits(body)
    IN  [ok |-> good, v |-> IF good THEN StrToNat(body) ELSE 0]

(***************************************************************************)
(* Results.  A `let x = e;` of the source whose value is used more than    *)
(* once is written Only({ ... x ... : x \in {e}}): x is bound to e, once.  *)
(***************************************************************************)
Only(S) == CHOOSE x \in S : TRUE

Ok(v) == [ok |-> TRUE, val |-> v, err |-> ""]

Err(kind) == [ok |-> FALSE, val |-> "", err |-> kind]

(***************************************************************************)
(* Cell (table.rs): String, Number, Boolean, Empty.                        *)
(***************************************************************************)
Abs(x) == IF x < 0 THEN -x ELSE x

RECURSIVE Gcd(_, _)
Gcd(a, b) == IF b = 0 THEN a ELSE Gcd(b, a % b)

CellString(str) == [tag |-> "String", s |-> str, n |-> 0, d |-> 1, b |-> FALSE]

\* Cell::Number of the f64 num/den (den # 0), kept in lowest terms
CellNumber(num, den) ==
    LET g == Gcd(Abs(num), Abs(den))
        sgn == IF den < 0 THEN -1 ELSE 1
    IN  [tag |-> "Number", s |-> "", n |-> (sgn * num) \div g,
         d |-> Abs(den) \div g, b |-> FALSE]

CellBoolean(bool) == [tag |-> "Boolean", s |-> "", n |-> 0, d |-> 1, b |-> bool]

CellEmpty == [tag |-> "Empty", s |-> "", n |-> 0, d |-> 1, b |-> FALSE]

\* `b as u8 as f64`
BoolAsNum(bool) == IF bool THEN 1 ELSE 0

\* f64 arithmetic on fractions
NumAdd(n1, d1, n2, d2) == CellNumber(n1 * d2 + n2 * d1, d1 * d2)

NumSub(n1, d1, n2, d2) == CellNumber(n1 * d2 - n2 * d1, d1 * d2)

NumMul(n1, d1, n2, d2) == CellNumber(n1 * n2, d1 * d2)

NumDiv(n1, d1, n2, d2) == CellNumber(n1 * d2, d1 * n2)

\* the f64 remainder keeps the sign of the dividend: a - b * trunc(a / b)
NumRem(n1, d1, n2, d2) ==
    LET p == n1 * d2
        q == d1 * n2
        t == Abs(p) \div Abs(q)
        tq == IF (p < 0) = (q < 0) THEN t ELSE -t
    IN  CellNumber(n1 * d2 - tq * n2 * d1, d1 * d2)

\* the digits after the decimal point of r/d (0 <= r < d), at most k of them
RECURSIVE FracDigits(_, _, _)
FracDigits(r, d, k) ==
    IF r = 0 \/ k = 0 THEN ""
    ELSE ToString((r * 10) \div d) \o FracDigits((r * 10) % d, d, k - 1)

\* Display for f64: no fraction part when the value is an integer
FmtF64(n, d) ==
    LET m == Abs(n)
    IN  (IF n < 0 THEN "-" ELSE "") \o ToString(m \div d)
        \o (IF m % d = 0 THEN "" ELSE "." \o FracDigits(m % d, d, FracDigitsMax))

FmtBool(bool) == IF bool THEN "true" ELSE "false"

\* impl Display for Cell
CellDisplay(c) ==
    CASE c.tag = "String" -> c.s
      [] c.tag = "Number" -> FmtF64(c.n, c.d)
      [] c.tag = "Boolean" -> FmtBool(c.b)
      [] c.tag = "Empty" -> ""

\* str::parse::<f64>() on decimal notation: [+-] digits [. digits], one digit at least
ParseF64(str) ==
    LET signed == str # "" /\ Char(str, 1) \in {"+", "-"}
        body == IF signed THEN StrFrom(str, 2) ELSE str
        dot == Find(body, ".")
        ip == IF dot = 0 THEN body ELSE SubSeq(body, 1, dot - 1)
        fp == IF dot = 0 THEN "" ELSE StrFrom(body, dot + 1)
        good == AllDigits(ip) /\ AllDigits(fp) /\ Len(ip) + Len(fp) > 0
        scale == Pow10(Len(fp))
        mag == StrToNat(ip) * scale + StrToNat(fp)
    IN  IF good
        THEN [ok |-> TRUE,
              val |-> CellNumber(IF StartsWith(str, "-") THEN -mag ELSE mag, scale)]
        ELSE [ok |-> FALSE, val |-> CellEmpty]

\* str::parse::<bool>()
ParseBool(str) ==
    IF str = "true" THEN [ok |-> TRUE, val |-> TRUE]
    ELSE IF str = "false" THEN [ok |-> TRUE, val |-> FALSE]
    ELSE [ok |-> FALSE, val |-> FALSE]

\* impl FromStr for Cell with the test of the empty string left out
CellFromStrNoEmptyTest(str) ==
    Only({IF number.ok THEN Ok(number.val)
          ELSE IF boolean.ok THEN Ok(CellBoolean(boolean.val))
          ELSE Ok(CellString(str)) : number \in {ParseF64(str)}, boolean \in {ParseBool(str)}})

\* impl FromStr for Cell
CellFromStr(str) ==
    IF str = "" THEN Ok(CellEmpty)
    ELSE Only({IF number.ok THEN Ok(number.val)
               ELSE IF boolean.ok THEN Ok(CellBoolean(boolean.val))
               ELSE Ok(CellString(str)) : number \in {ParseF64(str)}, boolean \in {ParseBool(str)}})

\* impl Add for Cell
CellAdd(a, b) ==
    CASE a.tag = "String" -> CellString(a.s \o CellDisplay(b))
      [] a.tag \in {"Number", "Boolean"} /\ b.tag = "String" ->
            Only({IF n2.ok
                  THEN NumAdd(IF a.tag = "Number" THEN a.n ELSE BoolAsNum(a.b),
                              IF a.tag = "Number" THEN a.d ELSE 1, n2.val.n, n2.val.d)
                  ELSE CellString(CellDisplay(a) \o b.s) : n2 \in {ParseF64(b.s)}})
      [] a.tag = "Number" /\ b.tag = "Number" -> NumAdd(a.n, a.d, b.n, b.d)
      [] a.tag = "Number" /\ b.tag = "Boolean" -> NumAdd(a.n, a.d, BoolAsNum(b.b), 1)
      [] a.tag = "Number" /\ b.tag = "Empty" -> CellNumber(a.n, a.d)
      [] a.tag = "Boolean" /\ b.tag = "Number" -> NumAdd(BoolAsNum(a.b), 1, b.n, b.d)
      [] a.tag = "Boolean" /\ b.tag = "Boolean" -> CellBoolean(a.b \/ b.b)
      [] a.tag = "Boolean" /\ b.tag = "Empty" -> CellBoolean(a.b)
      [] a.tag = "Empty" /\ b.tag = "Empty" -> CellEmpty
      [] a.tag = "Empty" /\ b.tag # "Empty" -> b

\* impl Sub for Cell
RECURSIVE CellSub(_, _)
CellSub(a, b) ==
    CASE a.tag \in {"Number", "Boolean"} /\ b.tag = "String" ->
            Only({IF n2.ok
                  THEN NumSub(IF a.tag = "Number" THEN a.n ELSE BoolAsNum(a.b),
                              IF a.tag = "Number" THEN a.d ELSE 1, n2.val.n, n2.val.d)
                  ELSE CellString(CellDisplay(a) \o b.s) : n2 \in {ParseF64(b.s)}})
      [] a.tag = "Number" /\ b.tag = "Number" -> NumSub(a.n, a.d, b.n, b.d)
      [] a.tag = "Number" /\ b.tag = "Boolean" -> NumSub(a.n, a.d, BoolAsNum(b.b), 1)
      [] a.tag = "Number" /\ b.tag = "Empty" -> a
      [] a.tag = "Boolean" /\ b.tag = "Number" -> NumSub(BoolAsNum(a.b), 1, b.n, b.d)
      [] a.tag = "Boolean" /\ b.tag = "Boolean" -> CellBoolean(a.b # b.b)
      [] a.tag = "Boolean" /\ b.tag = "Empty" -> a
      [] a.tag = "String" /\ b.tag = "String" -> CellString(RemoveAll(a.s, b.s))
      [] a.tag = "String" /\ b.tag \in {"Number", "Boolean"} ->
            Only({IF n2.ok
                  THEN NumSub(n2.val.n, n2.val.d,
                              IF b.tag = "Number" THEN b.n ELSE BoolAsNum(b.b),
                              IF b.tag = "Number" THEN b.d ELSE 1)
                  ELSE CellSub(CellString(a.s), CellString(CellDisplay(b)))
                  : n2 \in {ParseF64(a.s)}})
      [] a.tag = "String" /\ b.tag = "Empty" -> CellString(a.s)
      [] a.tag = "Empty" /\ b.tag = "Empty" -> CellEmpty
      [] a.tag = "Empty" /\ b.tag = "Number" -> CellNumber(-b.n, b.d)
      [] a.tag = "Empty" /\ b.tag = "String" -> CellEmpty
      [] a.tag = "Empty" /\ b.tag = "Boolean" -> CellBoolean(~b.b)

\* impl Mul for Cell
CellMul(a, b) ==
    IF a.tag = "Empty" THEN Ok(b)
    ELSE IF a.tag = "String" THEN Err("BadOperand")
    ELSE IF b.tag = "Empty" THEN Ok(a)
    ELSE IF b.tag = "String" THEN Err("BadOperand")
    ELSE LET ln == IF a.tag = "Number" THEN a.n ELSE BoolAsNum(a.b)
             ld == IF a.tag = "Number" THEN a.d ELSE 1
             rn == IF b.tag = "Number" THEN b.n ELSE BoolAsNum(b.b)
             rd == IF b.tag = "Number" THEN b.d ELSE 1
         IN  Ok(NumMul(ln, ld, rn, rd))

\* impl Div for Cell
CellDiv(a, b) ==
    IF a.tag = "Empty" THEN Ok(b)
    ELSE IF a.tag = "String" THEN Err("BadOperand")
    ELSE IF b.tag = "Number" /\ b.n = 0 THEN Err("DivideByZero")
    ELSE IF b.tag = "Boolean" /\ ~b.b THEN Err("DivideByZero")
    ELSE IF b.tag = "Empty" THEN Ok(a)
    ELSE IF b.tag = "String" THEN Err("BadOperand")
    ELSE LET ln == IF a.tag = "Number" THEN a.n ELSE BoolAsNum(a.b)
             ld == IF a.tag = "Number" THEN a.d ELSE 1
             rn == IF b.tag = "Number" THEN b.n ELSE 1
             rd == IF b.tag = "Number" THEN b.d ELSE 1
         IN  Ok(NumDiv(ln, ld, rn, rd))

\* impl Rem for Cell with Empty on the left returning the right operand, as impl Div does
CellRemEmptyAsIdentity(a, b) ==
    IF a.tag = "Empty" THEN Ok(b)
    ELSE IF a.tag = "String" THEN Err("BadOperand")
    ELSE IF b.tag = "Number" /\ b.n = 0 THEN Err("DivideByZero")
    ELSE IF b.tag = "Boolean" /\ ~b.b THEN Err("DivideByZero")
    ELSE IF b.tag \notin {"Number", "Boolean"} THEN Err("BadOperand")
    ELSE LET ln == IF a.tag = "Number" THEN a.n ELSE BoolAsNum(a.b)
             ld == IF a.tag = "Number" THEN a.d ELSE 1
             rn == IF b.tag = "Number" THEN b.n ELSE 1
             rd == IF b.tag = "Number" THEN b.d ELSE 1
         IN  Ok(NumRem(ln, ld, rn, rd))

\* impl Rem for Cell
CellRem(a, b) ==
    IF a.tag \notin {"Number", "Boolean"} THEN Err("BadOperand")
    ELSE IF b.tag = "Number" /\ b.n = 0 THEN Err("DivideByZero")
    ELSE IF b.tag = "Boolean" /\ ~b.b THEN Err("DivideByZero")
    ELSE IF b.tag \notin {"Number", "Boolean"} THEN Err("BadOperand")
    ELSE LET ln == IF a.tag = "Number" THEN a.n ELSE BoolAsNum(a.b)
             ld == IF a.tag = "Number" THEN a.d ELSE 1
             rn == IF b.tag = "Number" THEN b.n ELSE 1
             rd == IF b.tag = "Number" THEN b.d ELSE 1
         IN  Ok(NumRem(ln, ld, rn, rd))

(***************************************************************************)
(* Operation (closure.rs): the binary operators of the postfix language.   *)
(***************************************************************************)
OperationSymbols == {"+", "-", "*", "/", "%", "&", "|", "^"}

\* impl FromStr for Operation
OperationFromStr(str) ==
    IF str \in OperationSymbols THEN Ok(str) ELSE Err("InvalidOperation")

\* Operation::apply with Add dispatched to the multiplication
OperationApplyAddAsMul(op, a, b) ==
    CASE op = "+" -> CellMul(a, b)
      [] op = "-" -> Ok(CellSub(a, b))
      [] op = "*" -> CellMul(a, b)
      [] op = "/" -> CellDiv(a, b)
      [] op = "%" -> CellRem(a, b)
      [] OTHER -> Err("Panic")

\* Operation::apply with its two operands in the other order
OperationApplySwapped(op, a, b) ==
    CASE op = "+" -> Ok(CellAdd(b, a))
      [] op = "-" -> Ok(CellSub(b, a))
      [] op = "*" -> CellMul(b, a)
      [] op = "/" -> CellDiv(b, a)
      [] op = "%" -> CellRem(b, a)
      [] OTHER -> Err("Panic")

\* Operation::apply; And, Or and Xor reach todo!()
OperationApply(op, a, b) ==
    CASE op = "+" -> Ok(CellAdd(a, b))
      [] op = "-" -> Ok(CellSub(a, b))
      [] op = "*" -> CellMul(a, b)
      [] op = "/" -> CellDiv(a, b)
      [] op = "%" -> CellRem(a, b)
      [] OTHER -> Err("Panic")

(***************************************************************************)
(* Table (table.rs).  Rows and columns are indexed from 0 in the source;   *)
(* the sequences below are indexed from 1, so index i is element i + 1.    *)
(***************************************************************************)
\* Row::new
RowNew(row_size) == [i \in 1..row_size |-> CellEmpty]

\* Table::new
TableNew(name) == [title |-> name, ident |-> name, headers |-> RowNew(0), rows |-> <<>>]

\* Table::assign_title
AssignTitle(t, new_title) == [t EXCEPT !.title = new_title]

\* Table::dimensions
Dimensions(t) == <<Len(t.rows), Len(t.headers)>>

\* Table::extend_headers
ExtendHeaders(t, cells) == [t EXCEPT !.headers = t.headers \o cells]

\* Table::create_empty_row
CreateEmptyRow(t) == [t EXCEPT !.rows = Append(t.rows, RowNew(Len(t.headers)))]

\* Table::parse_row_splitted without the padding: a row of the values given
ParseRowSplittedUnpadded(t, cell_tokens) ==
    IF Len(t.headers) = 0 THEN [some |-> FALSE, row |-> <<>>]
    ELSE [some |-> TRUE,
          row |-> [i \in 1..(IF Len(cell_tokens) < Len(t.headers) THEN Len(cell_tokens)
                                 ELSE Len(t.headers)) |->
                     CellFromStr(cell_tokens[i]).val]]

\* Table::parse_row_splitted: None without headers, else the values padded with Empty
\* and cut to the header width
ParseRowSplitted(t, cell_tokens) ==
    IF Len(t.headers) = 0 THEN [some |-> FALSE, row |-> <<>>]
    ELSE [some |-> TRUE,
          row |-> [i \in 1..Len(t.headers) |->
                     IF i <= Len(cell_tokens)
                     THEN Only({IF parsed.ok THEN parsed.val ELSE CellEmpty
                                : parsed \in {CellFromStr(cell_tokens[i])}})
                     ELSE CellEmpty]]

\* Table::append_row_from
AppendRowFrom(t, cell_tokens) ==
    Only({IF row.some THEN [t EXCEPT !.rows = Append(t.rows, row.row)] ELSE t
          : row \in {ParseRowSplitted(t, cell_tokens)}})

\* Table::get_cell
GetCell(t, row, col) ==
    IF row >= Len(t.rows) THEN Err("RowOutOfBound")
    ELSE IF col >= Len(t.rows[row + 1]) THEN Err("ColumnOutOfBound")
    ELSE Ok(t.rows[row + 1][col + 1])

\* the assignment through Table::get_cell_mut, once the cell is known to exist
SetCell(t, row, col, c) == [t EXCEPT !.rows[row + 1][col + 1] = c]

\* impl Save for Table :: to_csv
RECURSIVE CsvCells(_)
CsvCells(cells) ==
    IF cells = <<>> THEN ""
    ELSE CellDisplay(Head(cells)) \o "," \o CsvCells(Tail(cells))

RECURSIVE CsvRows(_)
CsvRows(rows) ==
    IF rows = <<>> THEN ""
    ELSE CsvCells(Head(rows)) \o "\n" \o CsvRows(Tail(rows))

\* to_csv with commas between the cells only
ToCsvCommaSeparated(t) ==
    t.title \o "\n"
        \o Join([i \in 1..Len(t.headers) |-> CellDisplay(t.headers[i])], ",") \o "\n"
        \o Join([r \in 1..Len(t.rows) |->
                   Join([i \in 1..Len(t.rows[r]) |-> CellDisplay(t.rows[r][i])], ",")
                       \o "\n"], "")

ToCsv(t) == t.title \o "\n" \o CsvCells(t.headers) \o "\n" \o CsvRows(t.rows)

(***************************************************************************)
(* FunctionExecutor (closure.rs).                                          *)
(***************************************************************************)
\* the lexicographic order of (usize, usize)
TupleLt(p, q) == p[1] < q[1] \/ (p[1] = q[1] /\ p[2] < q[2])

\* the `~cell(i,j)` token of do_artihmetic
CellReference(token, t) ==
    LET inner == StrFrom(token, Len("~cell(") + 1)
    IN  IF ~EndsWith(inner, ")") THEN Err("InvalidCellReference")
        ELSE Only({IF ~pair.ok THEN Err("InvalidCellReference")
                   ELSE Only({IF ~i.ok \/ ~j.ok THEN Err("ParseInt") ELSE GetCell(t, i.v, j.v)
                              : i \in {ParseUsize(pair.l)}, j \in {ParseUsize(pair.r)}})
                   : pair \in {SplitOnce(SubSeq(inner, 1, Len(inner) - 1), ",")}})

\* the token loop of do_artihmetic, from token i on, and its final stack check
RECURSIVE EvalPostfix(_, _, _, _, _, _)
EvalPostfix(tokens, i, stack, storage_cell, curr, t) ==
    LET token == tokens[i]
        operation == OperationFromStr(token).ok
    IN  IF i > Len(tokens)
        THEN IF Len(stack) > 1 THEN Err("TooManyValues")
             ELSE IF Len(stack) = 1 THEN Ok(stack[1])
             ELSE Ok(CellEmpty)
        ELSE IF token = "~fn" THEN EvalPostfix(tokens, i + 2, stack, storage_cell, curr, t)
        ELSE IF operation /\ Len(stack) < 2 THEN Err("NotEnoughOperands")
        ELSE \* the value the token pushes, an operation after popping its two operands
             Only({IF value.ok
                   THEN EvalPostfix(tokens, i + 1,
                                    Append(IF operation THEN SubSeq(stack, 1, Len(stack) - 2)
                                           ELSE stack, value.val),
                                    storage_cell, curr, t)
                   ELSE value
                   : value \in
                       {IF StartsWith(token, "~cell(") THEN CellReference(token, t)
                        ELSE IF token = "~op" THEN Ok(storage_cell)
                        ELSE IF token = "~cell" THEN GetCell(t, curr[1], curr[2])
                        ELSE IF token = "~cell.x" THEN Ok(CellNumber(curr[1], 1))
                        ELSE IF token = "~cell.y" THEN Ok(CellNumber(curr[2], 1))
                        ELSE IF operation
                        THEN OperationApply(token, stack[Len(stack) - 1], stack[Len(stack)])
                        ELSE CellFromStr(token)}})

\* FunctionExecutor::do_artihmetic
DoArithmetic(raw_input, storage_cell, curr, t) ==
    EvalPostfix(SplitWhitespace(Trim(raw_input)), 1, <<>>, storage_cell, curr, t)

\* TableClosure (closure.rs)
TableClosureRec(pre, scr, post) == [prescript |-> pre, script |-> scr, postscript |-> post]

\* TableClosure::new with what follows the second `;` kept whole as the postscript
TableClosureNewKeepingRest(defination) ==
    LET components == Split(defination, ";")
    IN  IF Len(components) < 3 THEN Err("Panic")
        ELSE Ok(TableClosureRec(components[1], components[2],
                                Join(SubSeq(components, 3, Len(components)), ";")))

\* TableClosure::new: components[2] is indexed without a length check
TableClosureNew(defination) ==
    LET components == Split(defination, ";")
    IN  IF Len(components) < 3 THEN Err("Panic")
        ELSE Ok(TableClosureRec(components[1], components[2], components[3]))

\* the executor: its registers, its accumulator (<<>> is None, <<i, j>> is Some((i, j))),
\* the table it works on and how far it got
ExecState(t, regs, acc, e) == [table |-> t, registers |-> regs, accumulator |-> acc, err |-> e]

\* `f64::ceil() as usize` (the cast saturates at 0)
CeilAsUsize(c) ==
    LET up == -((-c.n) \div c.d)
    IN  IF up < 0 THEN 0 ELSE up

\* the `while table.dimensions().0 < output_cell.0` loop of apply_prescript
RECURSIVE GrowRows(_, _)
GrowRows(t, row) == IF Len(t.rows) < row THEN GrowRows(CreateEmptyRow(t), row) ELSE t

\* the literal accumulator arm of apply_prescript
LiteralAccumulator(x, acc, cell_start, cell_end) ==
    Only({IF ~pair.ok THEN [x EXCEPT !.err = "BadAccumulator"]
          ELSE Only({IF ~acc_i.ok THEN [x EXCEPT !.err = acc_i.err]
                     ELSE IF ~acc_j.ok THEN [x EXCEPT !.err = acc_j.err]
                     ELSE IF acc_i.val.tag # "Number" \/ acc_j.val.tag # "Number"
                     THEN [x EXCEPT !.err = "BadAccumulator"]
                     ELSE [x EXCEPT !.accumulator = <<CeilAsUsize(acc_i.val),
                                                      CeilAsUsize(acc_j.val)>>,
                                    !.table = GrowRows(x.table, CeilAsUsize(acc_i.val))]
                     : acc_i \in {DoArithmetic(pair.l, CellEmpty,
                                               <<cell_end[1] + 1, cell_end[2]>>, x.table)},
                       acc_j \in {DoArithmetic(pair.r, CellEmpty, cell_start, x.table)}})
          : pair \in {SplitOnce(acc, ",")}})

\* the token loop of apply_prescript over the `!`-separated prescript, from token i on
RECURSIVE PrescriptFrom(_, _, _, _, _)
PrescriptFrom(reader, i, x, cell_start, cell_end) ==
    LET acc == Trim(reader[i])
        output_cell == <<cell_end[1] + 1, cell_end[2]>>
    IN  IF i > Len(reader) \/ x.err # "" THEN x
        ELSE IF acc = "auto"
        THEN PrescriptFrom(reader, i + 1,
                           [x EXCEPT !.accumulator = output_cell,
                                     !.table = IF TupleLt(Dimensions(x.table),
                                                          <<output_cell[1] + 1,
                                                            output_cell[2] + 1>>)
                                               THEN CreateEmptyRow(x.table)
                                               ELSE x.table],
                           cell_start, cell_end)
        ELSE IF acc = "reg"
        THEN IF i + 1 > Len(reader) THEN [x EXCEPT !.err = "RegisterCountMissing"]
             ELSE Only({IF ~reg_count.ok THEN [x EXCEPT !.err = "ParseInt"]
                        ELSE PrescriptFrom(reader, i + 2,
                                           [x EXCEPT !.registers = RowNew(reg_count.v)],
                                           cell_start, cell_end)
                        : reg_count \in {ParseUsize(reader[i + 1])}})
        ELSE PrescriptFrom(reader, i + 1, LiteralAccumulator(x, acc, cell_start, cell_end),
                           cell_start, cell_end)

\* FunctionExecutor::apply_prescript
ApplyPrescript(closure, x, cell_start, cell_end) ==
    PrescriptFrom(Split(closure.prescript, "!"), 1, x, cell_start, cell_end)

\* apply_postscript without the call of destroy
ApplyPostscriptSkipped(x) == x

\* FunctionExecutor::destroy, through apply_postscript
ApplyPostscript(x) == [x EXCEPT !.registers = <<>>, !.accumulator = <<>>]

\* get_storage_cell that hands out an Empty cell where the storage is missing
GetStorageCellLenient(reader, x) ==
    LET storage == Trim(reader[2])
        acc == x.accumulator
    IN  IF Len(reader) >= 2 /\ storage = "acc" /\ acc # <<>> /\ GetCell(x.table, acc[1], acc[2]).ok
        THEN [x |-> [x EXCEPT !.table = SetCell(x.table, acc[1], acc[2], CellEmpty)],
              cell |-> GetCell(x.table, acc[1], acc[2]).val, next |-> 3]
        ELSE [x |-> x, cell |-> CellEmpty, next |-> IF storage = "reg" THEN 4 ELSE 3]

\* get_storage_cell with the value of the accumulator's cell copied, not taken
GetStorageCellCloned(reader, x) ==
    LET storage == Trim(reader[2])
        acc == x.accumulator
        Failed(kind, next) == [x |-> [x EXCEPT !.err = kind], cell |-> CellEmpty, next |-> next]
    IN  IF Len(reader) < 2 THEN Failed("StorageMissing", 2)
        ELSE IF storage = "acc"
        THEN IF acc = <<>> THEN Failed("MissingAccumulator", 3)
             ELSE Only({IF ~got.ok THEN Failed(got.err, 3)
                        ELSE [x |-> x, cell |-> got.val, next |-> 3]
                        : got \in {GetCell(x.table, acc[1], acc[2])}})
        ELSE IF storage = "reg"
        THEN IF Len(reader) < 3 THEN Failed("RegisterIdMissing", 3)
             ELSE Only({IF ~reg_id.ok THEN Failed("ParseInt", 4)
                        ELSE IF reg_id.v >= Len(x.registers) THEN Failed("RegisterOutOfRange", 4)
                        ELSE [x |-> [x EXCEPT !.registers[reg_id.v + 1] = CellEmpty],
                              cell |-> x.registers[reg_id.v + 1], next |-> 4]
                        : reg_id \in {ParseUsize(reader[3])}})
        ELSE Failed("InvalidStorage", 3)

\* get_storage_cell of FunctionExecutor::apply: the value taken from the storage the
\* script names after its command (reader[2], and reader[3] for a register), the executor
\* after the take and the position of the next script token
GetStorageCell(reader, x) ==
    LET storage == Trim(reader[2])
        acc == x.accumulator
        Failed(kind, next) == [x |-> [x EXCEPT !.err = kind], cell |-> CellEmpty, next |-> next]
    IN  IF Len(reader) < 2 THEN Failed("StorageMissing", 2)
        ELSE IF storage = "acc"
        THEN IF acc = <<>> THEN Failed("MissingAccumulator", 3)
             ELSE \* std::mem::take(table.get_cell_mut(acc.0, acc.1)?)
                  Only({IF ~got.ok THEN Failed(got.err, 3)
                        ELSE [x |-> [x EXCEPT !.table = SetCell(x.table, acc[1], acc[2],
                                                                CellEmpty)],
                              cell |-> got.val, next |-> 3]
                        : got \in {GetCell(x.table, acc[1], acc[2])}})
        ELSE IF storage = "reg"
        THEN IF Len(reader) < 3 THEN Failed("RegisterIdMissing", 3)
             ELSE \* std::mem::take(self.registers.get_mut(reg_id)?)
                  Only({IF ~reg_id.ok THEN Failed("ParseInt", 4)
                        ELSE IF reg_id.v >= Len(x.registers) THEN Failed("RegisterOutOfRange", 4)
                        ELSE [x |-> [x EXCEPT !.registers[reg_id.v + 1] = CellEmpty],
                              cell |-> x.registers[reg_id.v + 1], next |-> 4]
                        : reg_id \in {ParseUsize(reader[3])}})
        ELSE Failed("InvalidStorage", 3)

\* the two loops of "each" with the columns in the outer loop
RECURSIVE EachFoldColumnMajor(_, _, _, _, _, _, _)
EachFoldColumnMajor(closure, storage_cell, cell_i, cell_j, cell_start, cell_end, t) ==
    IF cell_j > cell_end[2] THEN Ok(storage_cell)
    ELSE IF cell_i > cell_end[1]
    THEN EachFoldColumnMajor(closure, storage_cell, cell_start[1], cell_j + 1, cell_start,
                             cell_end, t)
    ELSE Only({IF value.ok
               THEN EachFoldColumnMajor(closure, value.val, cell_i + 1, cell_j, cell_start,
                                        cell_end, t)
               ELSE value
               : value \in {DoArithmetic(closure, storage_cell, <<cell_i, cell_j>>, t)}})

\* the two loops of "each": the fold of the expression over the rows cell_i..cell_end.0
\* and, within a row, the columns cell_j..cell_end.1
RECURSIVE EachFold(_, _, _, _, _, _, _)
EachFold(closure, storage_cell, cell_i, cell_j, cell_start, cell_end, t) ==
    IF cell_i > cell_end[1] THEN Ok(storage_cell)
    ELSE IF cell_j > cell_end[2]
    THEN EachFold(closure, storage_cell, cell_i + 1, cell_start[2], cell_start, cell_end, t)
    ELSE Only({IF value.ok
               THEN EachFold(closure, value.val, cell_i, cell_j + 1, cell_start, cell_end, t)
               ELSE value
               : value \in {DoArithmetic(closure, storage_cell, <<cell_i, cell_j>>, t)}})

\* the script phase without the write into the accumulator's cell
WriteBackSkipped(x, storage_cell) == ApplyPostscript(x)

\* the write of the final storage value into the accumulator's cell, then postscript
WriteBack(x, storage_cell) ==
    LET acc == x.accumulator
    IN  IF acc = <<>> THEN ApplyPostscript(x)
        ELSE Only({IF ~got.ok THEN [x EXCEPT !.err = got.err]
                   ELSE ApplyPostscript([x EXCEPT !.table = SetCell(x.table, acc[1], acc[2],
                                                                    storage_cell)])
                   : got \in {GetCell(x.table, acc[1], acc[2])}})

\* the script phase of FunctionExecutor::apply: the first `!`-separated token is the
\* command, and both commands return
RunScript(closure, x0, cell_start, cell_end) ==
    LET reader == Split(closure.script, "!")
        token == Trim(reader[1])
    IN  IF token \notin {"each", "raw"} THEN [x0 EXCEPT !.err = "InvalidToken"]
        ELSE Only({IF got.x.err # "" THEN got.x
                   ELSE IF got.next > Len(reader) THEN [got.x EXCEPT !.err = "NoClosure"]
                   ELSE Only({IF ~storage_cell.ok THEN [got.x EXCEPT !.err = storage_cell.err]
                              ELSE WriteBack(got.x, storage_cell.val)
                              : storage_cell \in
                                  {IF token = "each"
                                   THEN EachFold(reader[got.next], got.cell, cell_start[1],
                                                 cell_start[2], cell_start, cell_end,
                                                 got.x.table)
                                   ELSE DoArithmetic(reader[got.next], got.cell,
                                                     <<cell_start[1], cell_start[1]>>,
                                                     got.x.table)}})
                   : got \in {GetStorageCell(reader, x0)}})

\* TableClosure::apply on an executor that another application has left its state in:
\* a register holding 1 and the accumulator bound to (0, 0)
ClosureApplyOnUsedExecutor(closure, t, cell_start, cell_end) ==
    LET x0 == ExecState(t, <<CellNumber(1, 1)>>, <<0, 0>>, "")
        dimensions == Dimensions(t)
    IN  IF TupleLt(dimensions, cell_start) \/ TupleLt(dimensions, cell_end)
        THEN [x0 EXCEPT !.err = "CellOutOfRange"]
        ELSE Only({IF x1.err # "" THEN x1 ELSE RunScript(closure, x1, cell_start, cell_end)
                   : x1 \in {ApplyPrescript(closure, x0, cell_start, cell_end)}})

\* FunctionExecutor::apply on a fresh executor (TableClosure::apply): the executor it
\* ends in; err is "" when it returned Ok
ClosureApply(closure, t, cell_start, cell_end) ==
    LET x0 == ExecState(t, <<>>, <<>>, "")
        dimensions == Dimensions(t)
    IN  IF TupleLt(dimensions, cell_start) \/ TupleLt(dimensions, cell_end)
        THEN [x0 EXCEPT !.err = "CellOutOfRange"]
        ELSE Only({IF x1.err # "" THEN x1 ELSE RunScript(closure, x1, cell_start, cell_end)
                   : x1 \in {ApplyPrescript(closure, x0, cell_start, cell_end)}})

(***************************************************************************)
(* Fuzzy matcher (autocorrect.rs).  Strings are UTF-8 in the source: a     *)
(* length is a count of bytes and a slice is cut at a byte offset, which   *)
(* panics inside a character.  The characters of the model are ASCII but   *)
(* for the ones of MultiByte, which take two bytes.                        *)
(***************************************************************************)
MultiByte == {"é"}

Utf8Len(c) == IF c \in MultiByte THEN 2 ELSE 1

\* str::len
ByteLen(s) == Len(s) + Cardinality({i \in 1..Len(s) : Utf8Len(Char(s, i)) = 2})

\* the number of characters that end within the first b bytes of s
CharsIn(s, b) ==
    IF b >= ByteLen(s) THEN Len(s)
    ELSE CHOOSE k \in 0..(Len(s) - 1) :
             ByteLen(SubSeq(s, 1, k)) <= b /\ ByteLen(SubSeq(s, 1, k + 1)) > b

\* &s[lo..hi], for offsets on character boundaries
ByteSlice(s, lo, hi) == SubSeq(s, CharsIn(s, lo) + 1, CharsIn(s, hi))

\* &s[1..]
SkipByte(s) == IF Utf8Len(Char(s, 1)) = 1 THEN Ok(StrFrom(s, 2)) ELSE Err("Panic")

Alphabet == "abcdefghijklmnopqrstuvwxyz"

UpperAlphabet == "ABCDEFGHIJKLMNOPQRSTUVWXYZ"

\* to_ascii_lowercase() as i64 - first_char, of an ASCII letter
LetterIndex ==
    [c \in {Char(Alphabet, i) : i \in 1..26} \cup {Char(UpperAlphabet, i) : i \in 1..26} |->
        IF Find(Alphabet, c) # 0 THEN Find(Alphabet, c) - 1 ELSE Find(UpperAlphabet, c) - 1]

\* char::is_ascii_alphabetic
IsAsciiAlphabetic(c) == c \in DOMAIN LetterIndex

OPERATIONS == <<"create", "add_row", "headers", "apply", "view">>

MODIFIERS == <<"with", "and">>

DMODIFIERS == <<"title">>

\* usize::MAX, the distance of a key not yet reached, as the largest integer at hand:
\* every key is reached from every start key, so no distance stays at it
USIZE_MAX == 2147483647

\* build_keyboard_distances: the keys next to each letter, a to z
Keyboard ==
    <<"qwszxx", "ghvnnn", "xdfvvv", "serfcx", "rwsdff", "rdgtcv", "tyhbvf", "gyujnb",
      "ujkloo", "huikmn", "jiolmm", "pokmmm", "njklll", "bhjkmm", "ipklll", "olllll",
      "aaaasw", "edfgtt", "awedxz", "fghyrr", "yhjkii", "cfgbbb", "qasdee", "zsdccc",
      "tghjuu", "asxxxx">>

\* KeyBoard::new, the `while i < P` loop: the neighbours of current_node from the i-th
\* on; b holds the distances from the start key, the queue and curr_dist
RECURSIVE Neighbors(_, _, _)
Neighbors(b, current_node, i) ==
    LET neighbor == LetterIndex[Char(Keyboard[current_node + 1], i)]
    IN  IF i > Len(Keyboard[current_node + 1]) THEN b
        ELSE IF b.distances[neighbor + 1] = USIZE_MAX
        THEN Neighbors([b EXCEPT !.distances[neighbor + 1] = b.curr_dist,
                                 !.queue = Append(b.queue, neighbor)],
                       current_node, i + 1)
        ELSE IF b.distances[neighbor + 1] > b.distances[current_node + 1] + 1
        THEN Neighbors([b EXCEPT !.distances[neighbor + 1] =
                                     b.distances[current_node + 1] + 1],
                       current_node, i + 1)
        ELSE Neighbors(b, current_node, i + 1)

\* KeyBoard::new, the `while rear - front > 0` loop and the `while k > 0` loop in it,
\* which together take the queued keys one by one, curr_dist counting them
RECURSIVE Bfs(_, _)
Bfs(b, front) ==
    IF Len(b.queue) - front > 0
    THEN Bfs(Neighbors([b EXCEPT !.curr_dist = b.curr_dist + 1], b.queue[front + 1], 1),
             front + 1)
    ELSE b.distances

\* KeyBoard::new: distance_map, one breadth-first pass for each start key
KEYBOARD ==
    [start \in 1..Len(Keyboard) |->
        Bfs([distances |-> [n \in 1..Len(Keyboard) |-> IF n = start THEN 0 ELSE USIZE_MAX],
             queue |-> <<start - 1>>, curr_dist |-> 0], 0)]

\* KeyBoard::lookup (None is -1); the distances are small, `as u32` keeps them
Lookup(a, b) ==
    IF ~IsAsciiAlphabetic(a) \/ ~IsAsciiAlphabetic(b) THEN -1
    ELSE KEYBOARD[LetterIndex[a] + 1][LetterIndex[b] + 1]

Min(a, b) == IF a <= b THEN a ELSE b

\* degree_of_closeness with the base case taken for every pair of strings
DegreeOfClosenessBaseCase(key, matcher) == Ok((ByteLen(key) + ByteLen(matcher)) * 8)

\* degree_of_closeness
RECURSIVE DegreeOfCloseness(_, _)
DegreeOfCloseness(key, matcher) ==
    LET key_c == Char(key, 1)
        match_c == Char(matcher, 1)
    IN  IF key = "" \/ matcher = "" THEN Ok((ByteLen(key) + ByteLen(matcher)) * 8)
        ELSE IF key_c = match_c
        THEN IF SkipByte(key).ok /\ SkipByte(matcher).ok
             THEN DegreeOfCloseness(SkipByte(key).val, SkipByte(matcher).val)
             ELSE Err("Panic")
        ELSE IF ~IsAsciiAlphabetic(key_c)
        THEN IF SkipByte(key).ok THEN DegreeOfCloseness(SkipByte(key).val, matcher)
             ELSE Err("Panic")
        ELSE IF ~IsAsciiAlphabetic(match_c)
        THEN IF SkipByte(matcher).ok THEN DegreeOfCloseness(key, SkipByte(matcher).val)
             ELSE Err("Panic")
        ELSE Only({IF ~delete_cost.ok \/ ~insert_cost.ok \/ ~replace_cost.ok
                   THEN Err("Panic")
                   ELSE Ok(Min(Min(delete_cost.val + 8, insert_cost.val + 8),
                               replace_cost.val + Lookup(key_c, match_c)))
                   : delete_cost \in {DegreeOfCloseness(StrFrom(key, 2), matcher)},
                     insert_cost \in {DegreeOfCloseness(key, StrFrom(matcher, 2))},
                     replace_cost \in {DegreeOfCloseness(StrFrom(key, 2),
                                                         StrFrom(matcher, 2))}})

\* keyboard_distance_matcher with max_by_key in place of min_by_key
KeyboardDistanceMatcherFarthest(token, candidates) ==
    Only({IF \E i \in DOMAIN cost : ~cost[i].ok THEN Err("Panic")
          ELSE Ok(candidates[CHOOSE i \in DOMAIN cost :
                                \A j \in DOMAIN cost : cost[i].val >= cost[j].val])
          : cost \in {[i \in DOMAIN candidates |->
                         DegreeOfCloseness(candidates[i], token)]}})

\* keyboard_distance_matcher over an array of candidates: min_by_key, the first of the
\* closest candidates
KeyboardDistanceMatcher(token, candidates) ==
    Only({IF \E i \in DOMAIN cost : ~cost[i].ok THEN Err("Panic")
          ELSE Ok(candidates[CHOOSE i \in DOMAIN cost :
                                /\ \A j \in DOMAIN cost : cost[i].val <= cost[j].val
                                /\ \A j \in 1..(i - 1) : cost[j].val > cost[i].val])
          : cost \in {[i \in DOMAIN candidates |->
                         DegreeOfCloseness(candidates[i], token)]}})

\* keyboard_distance_matcher over Token::Table: the keys of the HashMap come in no
\* fixed order, so any of the closest names may be the one returned
TableMatcher(token, table_idx) ==
    Only({IF \E k \in DOMAIN cost : ~cost[k].ok THEN Err("Panic")
          ELSE Ok({k \in DOMAIN cost : \A j \in DOMAIN cost : cost[k].val <= cost[j].val})
          : cost \in {[k \in DOMAIN table_idx |-> DegreeOfCloseness(k, token)]}})

(***************************************************************************)
(* VM (compiler.rs).  A VM value is a record of the struct's fields; the   *)
(* two HashMaps are functions from the stored names to 0-based indices.    *)
(***************************************************************************)
EmptyMap == [k \in {} |-> 0]

\* VM::new
VMNew(code) ==
    [code_text |-> code, tables |-> <<>>, tables_idx |-> EmptyMap, pointer |-> 0,
     closure_idx |-> EmptyMap, closures |-> <<>>]

\* impl FromStr for Operator
OperatorFromStr(str) ==
    CASE str \in {"create", "create_table", "="} -> Ok("Assignment")
      [] str = "add_row" -> Ok("AddRow")
      [] str = "headers" -> Ok("ExtendHeaders")
      [] str = "apply" -> Ok("Apply")
      [] str = "view" -> Ok("View")
      [] str = "define" -> Ok("DefineClosure")
      [] str = "prompt" -> Ok("Prompt")
      [] OTHER -> IF KeyboardDistanceMatcher(str, OPERATIONS).ok THEN Err("InvalidOperator")
                  ELSE Err("Panic")

\* Modifier::is_modifier
IsModifier(token) == token \in {"with", "and"}

\* impl FromStr for Modifier with an unknown keyword read as title
ModifierFromStrUnknownAsTitle(str) ==
    IF str \in {"header", "headers"} THEN Ok("WithHeader") ELSE Ok("WithTitle")

\* impl FromStr for Modifier
ModifierFromStr(str) ==
    CASE str \in {"header", "headers"} -> Ok("WithHeader")
      [] str = "title" -> Ok("WithTitle")
      [] OTHER -> IF KeyboardDistanceMatcher(str, DMODIFIERS).ok THEN Err("InvalidModifier")
                  ELSE Err("Panic")

\* the `while let Some(token) = token.next()` loop of parse_double_quote: the words
\* after an opening word, each pushed after one space, up to a word ending in a quote
RECURSIVE QuoteTail(_, _, _)
QuoteTail(token, i, string) ==
    IF i > Len(token) THEN [ok |-> TRUE, err |-> "", val |-> string, next |-> i, closed |-> FALSE]
    ELSE IF EndsWith(token[i], "\"")
    THEN [ok |-> TRUE, err |-> "",
          val |-> string \o " " \o SubSeq(token[i], 1, Len(token[i]) - 1),
          next |-> i + 1, closed |-> TRUE]
    ELSE QuoteTail(token, i + 1, string \o " " \o token[i])

\* VM::parse_double_quote with the test of the length of the first token left out
ParseDoubleQuoteNoLengthTest(token, i) ==
    IF i > Len(token)
    THEN [ok |-> FALSE, err |-> "StringLiteralNotFound", val |-> "", next |-> i, closed |-> FALSE]
    ELSE IF ~StartsWith(token[i], "\"")
    THEN [ok |-> FALSE, err |-> "StringLiteralNotFound", val |-> "",
          next |-> i + 1, closed |-> FALSE]
    ELSE IF EndsWith(token[i], "\"")
    THEN [ok |-> TRUE, err |-> "", val |-> SubSeq(token[i], 2, Len(token[i]) - 1),
          next |-> i + 1, closed |-> TRUE]
    ELSE QuoteTail(token, i + 1, StrFrom(token[i], 2))

\* VM::parse_double_quote on the token stream `token` whose next token is token[i]:
\* the literal, and the position of the token after it
ParseDoubleQuote(token, i) ==
    IF i > Len(token)
    THEN [ok |-> FALSE, err |-> "StringLiteralNotFound", val |-> "", next |-> i, closed |-> FALSE]
    ELSE LET token_start == token[i]
         IN  IF ~StartsWith(token_start, "\"")
             THEN [ok |-> FALSE, err |-> "StringLiteralNotFound", val |-> "",
                   next |-> i + 1, closed |-> FALSE]
             ELSE IF EndsWith(token_start, "\"") /\ Len(token_start) # 1
             THEN [ok |-> TRUE, err |-> "",
                   val |-> SubSeq(token_start, 2, Len(token_start) - 1),
                   next |-> i + 1, closed |-> TRUE]
             ELSE QuoteTail(token, i + 1, StrFrom(token_start, 2))

\* the cell_data loop of a modifier: literals are read while the next token opens a quote
RECURSIVE QuotedRun(_, _, _)
QuotedRun(token, i, cell_data) ==
    IF i > Len(token) \/ ~StartsWith(token[i], "\"")
    THEN [ok |-> TRUE, err |-> "", cell_data |-> cell_data, next |-> i]
    ELSE Only({IF lit.ok THEN QuotedRun(token, lit.next, Append(cell_data, lit.val))
               ELSE [ok |-> FALSE, err |-> lit.err, cell_data |-> cell_data, next |-> lit.next]
               : lit \in {ParseDoubleQuote(token, i)}})

\* the cell_data loop of add_row and headers: literals are read until the tokens end
RECURSIVE LiteralsToEnd(_, _, _)
LiteralsToEnd(token, i, cell_data) ==
    IF i > Len(token) THEN [ok |-> TRUE, err |-> "", cell_data |-> cell_data, next |-> i]
    ELSE Only({IF lit.ok THEN LiteralsToEnd(token, lit.next, Append(cell_data, lit.val))
               ELSE [ok |-> FALSE, err |-> lit.err, cell_data |-> cell_data, next |-> lit.next]
               : lit \in {ParseDoubleQuote(token, i)}})

\* `.map(|s| Cell::from_str(&s))` over the literals
CellsFromStrs(cell_data) == [i \in 1..Len(cell_data) |-> CellFromStr(cell_data[i]).val]

\* Operator::Assignment: the modifier loop over the tokens from token[i] on, acting on
\* the table the line created; err is "" when the loop ran to the end
RECURSIVE Modifiers(_, _, _)
Modifiers(token, i, t) ==
    IF i > Len(token) THEN [table |-> t, err |-> ""]
    ELSE IF ~IsModifier(token[i])
    THEN IF KeyboardDistanceMatcher(token[i], MODIFIERS).ok THEN Modifiers(token, i + 1, t)
         ELSE [table |-> t, err |-> "Panic"]
    ELSE IF i + 1 > Len(token) THEN [table |-> t, err |-> "NoModifierToken"]
    ELSE Only({IF ~modifier.ok THEN [table |-> t, err |-> modifier.err]
               ELSE Only({IF ~run.ok THEN [table |-> t, err |-> run.err]
                          ELSE IF run.cell_data = <<>>
                          THEN [table |-> t, err |-> "NoModifierData"]
                          ELSE IF modifier.val = "WithHeader"
                          THEN Modifiers(token, run.next,
                                         ExtendHeaders(t, CellsFromStrs(run.cell_data)))
                          ELSE Modifiers(token, run.next, AssignTitle(t, run.cell_data[1]))
                          : run \in {QuotedRun(token, i + 2, <<>>)}})
               : modifier \in {ModifierFromStr(token[i + 1])}})

\* what a call of interpret_next_line leaves: the VM, "Ok" or the error's kind, and the
\* table text it printed
Outcome(vm, res, printed) == [vm |-> vm, res |-> res, out |-> printed]

\* the table slot of Operator::Assignment with the old table kept under the name
AssignTableKeepingOld(vm, name) ==
    IF name \in DOMAIN vm.tables_idx THEN vm
    ELSE [vm EXCEPT !.tables = Append(vm.tables, TableNew(name)),
                    !.tables_idx = (name :> Len(vm.tables)) @@ vm.tables_idx]

\* the table slot of Operator::Assignment with an existing name always found in the
\* first slot
AssignTableFirstSlot(vm, name) ==
    IF name \in DOMAIN vm.tables_idx
    THEN [vm EXCEPT !.tables[1] = TableNew(name)]
    ELSE [vm EXCEPT !.tables = Append(vm.tables, TableNew(name)),
                    !.tables_idx = (name :> Len(vm.tables)) @@ vm.tables_idx]

\* the table slot of Operator::Assignment with a new table pushed for every name
AssignTableAppending(vm, name) ==
    [vm EXCEPT !.tables = Append(vm.tables, TableNew(name)),
               !.tables_idx = (name :> Len(vm.tables)) @@ vm.tables_idx]

\* the table slot of Operator::Assignment: an existing name has its table replaced in
\* place, a new name is pushed
AssignTable(vm, name) ==
    IF name \in DOMAIN vm.tables_idx
    THEN [vm EXCEPT !.tables[vm.tables_idx[name] + 1] = TableNew(name)]
    ELSE [vm EXCEPT !.tables = Append(vm.tables, TableNew(name)),
                    !.tables_idx = (name :> Len(vm.tables)) @@ vm.tables_idx]

\* get_coord of Operator::Apply on token[i], token[i + 1]
GetCoord(token, i) ==
    IF i > Len(token) THEN Err("NoRowIndex")
    ELSE IF i + 1 > Len(token) THEN Err("NoColumnIndex")
    ELSE Only({IF ~start_i.ok \/ ~start_j.ok THEN Err("ParseInt")
               ELSE Ok(<<start_i.v, start_j.v>>)
               : start_i \in {ParseUsize(token[i])}, start_j \in {ParseUsize(token[i + 1])}})

\* Operator::Assignment
DoAssignment(vm, token, table_idx) ==
    Only({Outcome([vm EXCEPT !.tables[table_idx + 1] = m.table],
                  IF m.err = "" THEN "Ok" ELSE m.err, "")
          : m \in {Modifiers(token, 3, vm.tables[table_idx + 1])}})

\* Operator::AddRow
DoAddRow(vm, token, table_idx) ==
    Only({IF ~lits.ok THEN Outcome(vm, lits.err, "")
          ELSE Outcome([vm EXCEPT !.tables[table_idx + 1] = AppendRowFrom(@, lits.cell_data)],
                       "Ok", "")
          : lits \in {LiteralsToEnd(token, 3, <<>>)}})

\* Operator::ExtendHeaders
DoExtendHeaders(vm, token, table_idx) ==
    Only({IF ~lits.ok THEN Outcome(vm, lits.err, "")
          ELSE Outcome([vm EXCEPT !.tables[table_idx + 1] =
                                      ExtendHeaders(@, CellsFromStrs(lits.cell_data))],
                       "Ok", "")
          : lits \in {LiteralsToEnd(token, 3, <<>>)}})

\* Operator::View: the CSV is printed, then table_view asks the external collaborators,
\* whose answer is ext
DoView(vm, table_idx, ext) == Outcome(vm, ext, ToCsv(vm.tables[table_idx + 1]))

\* Operator::Prompt: the external collaborator answers ext
DoPrompt(vm, table_idx, ext) == Outcome(vm, ext, "")

\* Operator::Apply with the coordinates read before the closure is looked up
DoApplyCoordinatesFirst(vm, token, table_idx) ==
    IF Len(token) < 3 THEN Outcome(vm, "NoClosureName", "")
    ELSE Only({IF ~start.ok THEN Outcome(vm, start.err, "")
               ELSE IF token[3] \notin DOMAIN vm.closure_idx
               THEN Outcome(vm, "UndefinedClosure", "")
               ELSE Only({Outcome([vm EXCEPT !.tables[table_idx + 1] = x.table],
                                  IF x.err = "" THEN "Ok" ELSE x.err, "")
                          : x \in {ClosureApply(vm.closures[vm.closure_idx[token[3]] + 1],
                                                vm.tables[table_idx + 1], start.val,
                                                IF end.ok THEN end.val ELSE start.val)}})
               : start \in {GetCoord(token, 4)}, end \in {GetCoord(token, 6)}})

\* Operator::Apply with the end of the range defaulting to the cell (0, 0)
DoApplyEndAtOrigin(vm, token, table_idx) ==
    IF Len(token) < 3 THEN Outcome(vm, "NoClosureName", "")
    ELSE IF token[3] \notin DOMAIN vm.closure_idx THEN Outcome(vm, "UndefinedClosure", "")
    ELSE Only({IF ~start.ok THEN Outcome(vm, start.err, "")
               ELSE Only({Outcome([vm EXCEPT !.tables[table_idx + 1] = x.table],
                                  IF x.err = "" THEN "Ok" ELSE x.err, "")
                          : x \in {ClosureApply(vm.closures[vm.closure_idx[token[3]] + 1],
                                                vm.tables[table_idx + 1], start.val,
                                                IF end.ok THEN end.val ELSE <<0, 0>>)}})
               : start \in {GetCoord(token, 4)}, end \in {GetCoord(token, 6)}})

\* Operator::Apply
DoApply(vm, token, table_idx) ==
    IF Len(token) < 3 THEN Outcome(vm, "NoClosureName", "")
    ELSE IF token[3] \notin DOMAIN vm.closure_idx THEN Outcome(vm, "UndefinedClosure", "")
    ELSE Only({IF ~start.ok THEN Outcome(vm, start.err, "")
               ELSE Only({Outcome([vm EXCEPT !.tables[table_idx + 1] = x.table],
                                  IF x.err = "" THEN "Ok" ELSE x.err, "")
                          : x \in {ClosureApply(vm.closures[vm.closure_idx[token[3]] + 1],
                                                vm.tables[table_idx + 1], start.val,
                                                IF end.ok THEN end.val ELSE start.val)}})
               : start \in {GetCoord(token, 4)}, end \in {GetCoord(token, 6)}})

\* Operator::DefineClosure
DoDefineClosure(vm, token, name) ==
    Only({IF ~defination.ok THEN Outcome(vm, defination.err, "")
          ELSE IF name \in DOMAIN vm.closure_idx
          THEN Outcome([vm EXCEPT !.closures[vm.closure_idx[name] + 1] = defination.val],
                       "Ok", "")
          ELSE Outcome([vm EXCEPT !.closures = Append(vm.closures, defination.val),
                                  !.closure_idx = (name :> Len(vm.closures)) @@ vm.closure_idx],
                       "Ok", "")
          : defination \in {TableClosureNew(Join(SubSeq(token, 3, Len(token)), " "))}})

\* the ok_or_else closures of interpret_next_line: kind is the error the line fails
\* with, after a table-name suggestion when the name is unknown and tables exist
NoTable(vm, table_name_token, kind) ==
    IF table_name_token \notin DOMAIN vm.tables_idx /\ vm.tables # <<>>
       /\ ~TableMatcher(table_name_token, vm.tables_idx).ok
    THEN "Panic"
    ELSE kind

\* interpret_next_line from the tokens of a non-empty line on; ext is what the external
\* collaborators (the file system for render, the services behind view and prompt) answer
Dispatch(vm, code_line, ext) ==
    Only({IF token[1] = "render" THEN Outcome(vm, ext, "")
          ELSE IF Len(token) < 2 THEN Outcome(vm, NoTable(vm, token[1], "NoOperator"), "")
          ELSE Only({IF ~operator.ok THEN Outcome(vm, operator.err, "")
                     ELSE IF operator.val = "DefineClosure"
                     THEN DoDefineClosure(vm, token, token[1])
                     ELSE IF operator.val = "Assignment"
                     THEN Only({DoAssignment(assigned, token, assigned.tables_idx[token[1]])
                                : assigned \in {AssignTable(vm, token[1])}})
                     ELSE IF token[1] \notin DOMAIN vm.tables_idx
                     THEN Outcome(vm, NoTable(vm, token[1], "NoTableFound"), "")
                     ELSE Only({CASE operator.val = "AddRow" -> DoAddRow(vm, token, table_idx)
                                  [] operator.val = "ExtendHeaders" ->
                                        DoExtendHeaders(vm, token, table_idx)
                                  [] operator.val = "View" -> DoView(vm, table_idx, ext)
                                  [] operator.val = "Apply" -> DoApply(vm, token, table_idx)
                                  [] operator.val = "Prompt" -> DoPrompt(vm, table_idx, ext)
                                : table_idx \in {vm.tables_idx[token[1]]}})
                     : operator \in {OperatorFromStr(token[2])}})
          : token \in {SplitWhitespace(code_line)}})

\* VM::interpret_next_line: the line at the cursor is cut out and trimmed, the cursor
\* moves past it, and a non-empty line is dispatched; slicing code_text at a cursor
\* beyond its end panics
InterpretNextLine(vm, ext) ==
    IF vm.pointer > ByteLen(vm.code_text) THEN Outcome(vm, "Panic", "")
    ELSE Only({Only({IF code_line = ""
                     THEN Outcome([vm EXCEPT !.pointer = vm.pointer + code_line_end + 1],
                                  "Ok", "")
                     ELSE Dispatch([vm EXCEPT !.pointer = vm.pointer + code_line_end + 1],
                                   code_line, ext)
                     : code_line \in {Trim(ByteSlice(vm.code_text, vm.pointer,
                                                     vm.pointer + code_line_end))}})
               : code_line_end \in
                   {Only({IF newline = 0 THEN ByteLen(vm.code_text) - vm.pointer
                          ELSE ByteLen(SubSeq(rest, 1, newline - 1))
                          : newline \in {Find(rest, "\n")}})
                    : rest \in {ByteSlice(vm.code_text, vm.pointer,
                                          ByteLen(vm.code_text))}}})

\* the second line of an error report: `spaces` spaces, then `carets` carets; `at` is
\* the position among the tokens of the line of the token the report is about, 0 when
\* the report is about a token that is missing
Carets(spaces, carets, at) == Ok([spaces |-> spaces, carets |-> carets, at |-> at])

\* an Ok, a panic, or an error whose report has no line of carets
NoCarets == Err("NoCarets")

\* read_pointer over the cell_data loop of a modifier: cell_element.len() + 3 is added
\* for every literal read
RECURSIVE QuotedRunPointer(_, _, _, _)
QuotedRunPointer(token, i, read_pointer, read) ==
    IF i > Len(token) \/ ~StartsWith(token[i], "\"")
    THEN [next |-> i, read_pointer |-> read_pointer, read |-> read]
    ELSE Only({QuotedRunPointer(token, lit.next, read_pointer + ByteLen(lit.val) + 3, read + 1)
               : lit \in {ParseDoubleQuote(token, i)}})

\* Operator::Assignment, the carets of the error of the modifier loop from token[i] on
RECURSIVE ModifierCarets(_, _, _)
ModifierCarets(token, i, read_pointer) ==
    IF i > Len(token) THEN NoCarets
    ELSE LET temp_read_pointer == read_pointer
             after == read_pointer + ByteLen(token[i]) + 1
         IN  IF ~IsModifier(token[i])
             THEN IF KeyboardDistanceMatcher(token[i], MODIFIERS).ok
                  THEN ModifierCarets(token, i + 1, after)
                  ELSE NoCarets
             ELSE IF i + 1 > Len(token)
             THEN Carets(temp_read_pointer, ByteLen(token[i]), i)
             ELSE Only({IF ~modifier.ok /\ modifier.err = "Panic" THEN NoCarets
                        ELSE IF ~modifier.ok
                        THEN Carets(after, ByteLen(token[i + 1]), i + 1)
                        ELSE Only({IF run.read = 0
                                   THEN Carets(after, ByteLen(token[i + 1]), i + 1)
                                   ELSE ModifierCarets(token, run.next, run.read_pointer)
                                   : run \in {QuotedRunPointer(
                                                  token, i + 2,
                                                  after + ByteLen(token[i + 1]) + 1, 0)}})
                        : modifier \in {ModifierFromStr(token[i + 1])}})

\* Operator::AddRow and Operator::ExtendHeaders, the carets of the error of the
\* cell_data loop from token[i] on
RECURSIVE LiteralCarets(_, _, _)
LiteralCarets(token, i, read_pointer) ==
    IF i > Len(token) THEN NoCarets
    ELSE Only({IF ~lit.ok THEN Carets(read_pointer, ByteLen(token[i]), i)
               ELSE LiteralCarets(token, lit.next, read_pointer + ByteLen(lit.val) + 3)
               : lit \in {ParseDoubleQuote(token, i)}})

\* Operator::Apply, the carets of its error; read_pointer is past the operator
ApplyCarets(vm, token, read_pointer) ==
    IF Len(token) < 3 THEN Carets(read_pointer, 1, 0)
    ELSE IF token[3] \notin DOMAIN vm.closure_idx
    THEN Carets(read_pointer, ByteLen(token[3]), 3)
    ELSE IF Len(token) < 4 THEN Carets(read_pointer + ByteLen(token[3]) + 1, 1, 0)
    ELSE IF Len(token) < 5
    THEN Carets(read_pointer + ByteLen(token[3]) + 1 + ByteLen(token[4]) + 1, 1, 0)
    ELSE NoCarets

\* interpret_next_line, the line of carets of the error it returns on code_line
ErrorCarets(vm, code_line) ==
    Only({IF Len(token) = 0 \/ token[1] = "render" THEN NoCarets
          ELSE IF Len(token) < 2
          THEN IF NoTable(vm, token[1], "NoOperator") = "Panic" THEN NoCarets
               ELSE Carets(ByteLen(token[1]) + 1, 1, 0)
          ELSE Only({Only({IF ~operator.ok /\ operator.err = "Panic" THEN NoCarets
                           ELSE IF ~operator.ok
                           THEN Carets(temp_read_pointer, ByteLen(token[2]), 2)
                           ELSE IF operator.val = "DefineClosure" THEN NoCarets
                           ELSE IF operator.val = "Assignment"
                           THEN ModifierCarets(token, 3, read_pointer)
                           ELSE IF token[1] \notin DOMAIN vm.tables_idx
                           THEN IF NoTable(vm, token[1], "NoTableFound") = "Panic"
                                THEN NoCarets
                                ELSE Carets(0, ByteLen(token[1]), 1)
                           ELSE IF operator.val \in {"AddRow", "ExtendHeaders"}
                           THEN LiteralCarets(token, 3, read_pointer)
                           ELSE IF operator.val = "Apply"
                           THEN ApplyCarets(vm, token, read_pointer)
                           ELSE NoCarets
                           : read_pointer \in {temp_read_pointer + ByteLen(token[2]) + 1}})
                     : operator \in {OperatorFromStr(token[2])},
                       temp_read_pointer \in {ByteLen(token[1]) + 1}})
          : token \in {SplitWhitespace(code_line)}})

\* interpret_next_line, the line it cuts out of code_text at the cursor
CodeLine(vm) ==
    IF vm.pointer > ByteLen(vm.code_text) THEN ""
    ELSE Trim(Split(ByteSlice(vm.code_text, vm.pointer, ByteLen(vm.code_text)), "\n")[1])

\* VM::interpret: lines are interpreted until the cursor reaches the end of the text
\* or a line fails
RECURSIVE VMInterpret(_, _, _)
VMInterpret(vm, ext, printed) ==
    IF vm.pointer < ByteLen(vm.code_text)
    THEN Only({IF o.res = "Ok"
               THEN VMInterpret(o.vm, ext, IF o.out = "" THEN printed ELSE o.out)
               ELSE o
               : o \in {InterpretNextLine(vm, ext)}})
    ELSE Outcome(vm, "Ok", printed)

(***************************************************************************)
(* The state machine: a VM that is handed one source text after another    *)
(* (main.rs, the REPL loop: code_text = line, pointer = 0, interpret()).   *)
(***************************************************************************)
\* no function has been called on its own
NoCall == [fn |-> "", args |-> <<>>]

\* no script is being fed: the lines come one at a time from outside
NoBatch ==
    [mode |-> "", lines |-> <<>>, index |-> 0, status |-> "idle", reported |-> 0,
     written |-> FALSE, output |-> ""]

TheVM ==
    [code_text |-> code_text, tables |-> tables, tables_idx |-> tables_idx,
     pointer |-> pointer, closure_idx |-> closure_idx, closures |-> closures]

CellWithinBounds(c) ==
    /\ Len(c.s) <= MaxStrLen
    /\ Abs(c.n) <= MaxNum
    /\ c.d <= MaxNum

TableWithinBounds(t) ==
    /\ Len(t.headers) <= MaxCols
    /\ Len(t.rows) <= MaxRows
    /\ \A r \in 1..Len(t.rows) : \A c \in 1..Len(t.rows[r]) : CellWithinBounds(t.rows[r][c])

WithinBounds(vm) == \A i \in 1..Len(vm.tables) : TableWithinBounds(vm.tables[i])

\* a string literal of the language
Q(str) == "\"" \o str \o "\""

\* the literals of a line, each after one space
RECURSIVE Quoted(_)
Quoted(values) ==
    IF values = <<>> THEN "" ELSE " " \o Q(Head(values)) \o Quoted(Tail(values))

\* the first token of a line: the name the line is about
NameOf(text) == SplitWhitespace(text)[1]

ExternalAnswers == {"Ok", "External"}

\* the create lines: the three spellings of the keyword, with and without modifiers;
\* u is a second table next to t
CreateTexts ==
    {"t create",
     "t = with title \"T\"",
     "t create_table with headers \"H1\" \"H2\"",
     "t create with header \"H1\" and title \"T\"",
     "u create with headers \"H1\""}

HeaderValues == {<<>>, <<"H2">>}

HeadersText(name, values) == name \o " headers" \o Quoted(values)

RowValues == {<<>>, <<"5">>, <<"1", "x">>, <<"", "true", "a b">>}

AddRowText(name, values) == name \o " add_row" \o Quoted(values)

ViewTexts == {"t view"}

Init ==
    /\ code_text = ""
    /\ pointer = 0
    /\ tables = <<>>
    /\ tables_idx = EmptyMap
    /\ closure_idx = EmptyMap
    /\ closures = <<>>
    /\ result = "Ok"
    /\ stdout = ""
    /\ cellA = CellEmpty
    /\ cellB = CellEmpty
    /\ cellOp = ""
    /\ cellExpr = ""
    /\ cellRes = Ok(CellEmpty)
    /\ call = NoCall
    /\ ret = Ok("")
    /\ batch = NoBatch

\* main.rs, the REPL loop: the text replaces code_text, the cursor is reset and
\* interpret() runs; a panic ends the process
Submit(text, ext) ==
    /\ result # "Panic"
    /\ \E o \in {VMInterpret([TheVM EXCEPT !.code_text = text, !.pointer = 0], ext, "")} :
           /\ WithinBounds(o.vm)
           /\ code_text' = o.vm.code_text
           /\ pointer' = o.vm.pointer
           /\ tables' = o.vm.tables
           /\ tables_idx' = o.vm.tables_idx
           /\ closure_idx' = o.vm.closure_idx
           /\ closures' = o.vm.closures
           /\ result' = o.res
           /\ stdout' = o.out
    /\ UNCHANGED <<cellVars, callVars, batch>>

CreateLine == \E text \in CreateTexts : Submit(text, "Ok")

HeadersLine == \E values \in HeaderValues : Submit(HeadersText("t", values), "Ok")

AddRowLine == \E values \in RowValues : Submit(AddRowText("t", values), "Ok")

ViewLine == \E text \in ViewTexts : \E ext \in ExternalAnswers : Submit(text, ext)

Next ==
    \/ CreateLine
    \/ HeadersLine
    \/ AddRowLine
    \/ ViewLine

Spec == Init /\ [][Next]_vars

(***************************************************************************)
(* Dispatch: lines that name missing tables, unknown operators, undefined  *)
(* closures, the render intrinsic and the external collaborators.          *)
(***************************************************************************)
SetupTexts ==
    {"t create with headers \"H1\" \"H2\"",
     "t add_row \"5\" \"true\"",
     "sum define auto;each!acc!~op ~cell +;"}

UndefinedClosureTexts ==
    {"t apply nope",
     "t apply nope 0 0",
     "t apply nope 0 0 1 1",
     "t apply nope x y",
     "t apply define 0 0"}

MissingTableTexts ==
    {"w add_row \"5\"",
     "w headers \"H1\"",
     "w apply sum 0 0",
     "w apply nope 0 0",
     "w view",
     "w prompt \"rows?\"",
     "sum view",
     "é view"}

UnknownOperatorTexts ==
    {"t viw",
     "t ad \"5\"",
     "t Creat",
     "t sum 0 0",
     "w viw",
     "sum defin auto;;",
     "t vié"}

RenderTexts == {"render", "render view", "render viw", "render create"}

ExternalTexts == {"t view", "t prompt \"rows?\""}

SetupLine == \E text \in SetupTexts : Submit(text, "Ok")

UndefinedClosureLine == \E text \in UndefinedClosureTexts : Submit(text, "Ok")

MissingTableLine ==
    \E text \in MissingTableTexts : \E ext \in ExternalAnswers : Submit(text, ext)

UnknownOperatorLine == \E text \in UnknownOperatorTexts : Submit(text, "Ok")

RenderLine == \E text \in RenderTexts : \E ext \in ExternalAnswers : Submit(text, ext)

ExternalLine == \E text \in ExternalTexts : \E ext \in ExternalAnswers : Submit(text, ext)

NextDispatch ==
    \/ SetupLine
    \/ UndefinedClosureLine
    \/ MissingTableLine
    \/ UnknownOperatorLine
    \/ RenderLine
    \/ ExternalLine

SpecDispatch == Init /\ [][NextDispatch]_vars

(***************************************************************************)
(* Closures: the closure sum is applied over ranges of the table t.        *)
(***************************************************************************)
RECURSIVE Numbers(_)
Numbers(coords) ==
    IF coords = <<>> THEN "" ELSE " " \o ToString(Head(coords)) \o Numbers(Tail(coords))

ApplyText(name, closure, coords) == name \o " apply " \o closure \o Numbers(coords)

\* one cell by its coordinates alone, one cell as a range, and two wider ranges
ApplyRanges ==
    {<<r, c>> : r \in 0..MaxRows, c \in 0..MaxCols}
        \cup {<<r, c, r, c>> : r \in 0..1, c \in 0..1}
        \cup {<<0, 0, 0, 1>>, <<0, 0, 1, 1>>}

ApplyLine == \E coords \in ApplyRanges : Submit(ApplyText("t", "sum", coords), "Ok")

\* apply lines whose first pair of coordinates is missing, cut short or not two
\* unsigned integers, and lines whose second pair is absent, cut short or not numbers
CoordinateTexts ==
    {"t apply sum",
     "t apply sum 0",
     "t apply sum a 0",
     "t apply sum 0 b",
     "t apply sum -1 0",
     "t apply sum 1.0 0",
     "t apply sum +0 +1",
     "t apply sum 0 1",
     "t apply sum 0 0 1",
     "t apply sum 0 1 x y"}

CoordinateLine == \E text \in CoordinateTexts : Submit(text, "Ok")

\* three closures defined by one text: r folds into register 0 of the one register its
\* prescript allocates, n names the accumulator that its prescript does not bind, q
\* names a register that its prescript does not allocate
ExecutorSetup ==
    "r define auto!reg!1;each!reg!0!~op ~cell +;\n"
        \o "n define reg!1;each!acc!~op ~cell +;\n"
        \o "q define auto;each!reg!0!~op ~cell +;"

\* applications of them, to follow one another and the applications of sum
ExecutorTexts ==
    {"t apply r 0 0", "t apply r 0 0 0 1", "t apply n 0 0", "t apply q 0 0"}

ExecutorLine == \E text \in {ExecutorSetup} \cup ExecutorTexts : Submit(text, "Ok")

NextClosure ==
    \/ SetupLine
    \/ ApplyLine
    \/ CoordinateLine
    \/ ExecutorLine

SpecClosure == Init /\ [][NextClosure]_vars

(***************************************************************************)
(* Cells: one operation, or one postfix expression, on a pair of cells.    *)
(***************************************************************************)
MaxExprLen == 3

CellInputs ==
    {CellEmpty, CellBoolean(TRUE), CellBoolean(FALSE),
     CellString("x"), CellString("7"), CellString("")}
        \cup {CellNumber(n, 1) : n \in -1..2}
        \cup {CellNumber(1, 2)}

ExprTokens == {"~op", "~cell", "~cell(0,0)", "x", "+", "-", "*"}

Exprs == UNION {[1..n -> ExprTokens] : n \in 1..MaxExprLen}

\* a table of one cell
ExprTable(c) == [TableNew("e") EXCEPT !.headers = <<CellString("H1")>>, !.rows = <<<<c>>>>]

InitCell ==
    /\ code_text = ""
    /\ pointer = 0
    /\ tables = <<>>
    /\ tables_idx = EmptyMap
    /\ closure_idx = EmptyMap
    /\ closures = <<>>
    /\ result = "Ok"
    /\ stdout = ""
    /\ cellA \in CellInputs
    /\ cellB \in CellInputs
    /\ cellOp = ""
    /\ cellExpr = ""
    /\ cellRes = Ok(CellEmpty)
    /\ call = NoCall
    /\ ret = Ok("")
    /\ batch = NoBatch

\* Operation::apply on (cellA, cellB)
ApplyOperation ==
    /\ cellOp = ""
    /\ cellExpr = ""
    /\ \E op \in OperationSymbols :
           /\ cellOp' = op
           /\ cellRes' = OperationApply(op, cellA, cellB)
    /\ UNCHANGED <<vmVars, callVars, cellA, cellB, cellExpr>>

\* do_artihmetic on a postfix expression: cellA is the storage cell, cellB the one cell
\* of the table
EvaluateExpression ==
    /\ cellOp = ""
    /\ cellExpr = ""
    /\ \E e \in Exprs :
           /\ cellExpr' = Join(e, " ")
           /\ cellRes' = DoArithmetic(Join(e, " "), cellA, <<0, 0>>, ExprTable(cellB))
    /\ UNCHANGED <<vmVars, callVars, cellA, cellB, cellOp>>

NextCell ==
    \/ ApplyOperation
    \/ EvaluateExpression

SpecCell == InitCell /\ [][NextCell]_vars

(***************************************************************************)
(* Modifiers: create lines whose modifier keyword is not one of header,    *)
(* headers, title.  A line is the pair of its text before the `with` or    *)
(* `and` of that keyword and its text from there on.                       *)
(***************************************************************************)
UnknownModifierLines ==
    {<<"t create", "with titel \"T\" and header \"H1\"">>,
     <<"t create with header \"H1\"", "and titel \"T\" and header \"H2\"">>,
     <<"t = with title \"T\"", "with heading \"H1\" \"H2\"">>,
     <<"t create_table with headers \"H1\" \"H2\"", "and x">>,
     <<"u create", "with tité \"T\" and header \"H1\"">>}

LineText(line) == line[1] \o " " \o line[2]

ModifierLine == \E line \in UnknownModifierLines : Submit(LineText(line), "Ok")

NextModifier ==
    \/ CreateLine
    \/ AddRowLine
    \/ ModifierLine

SpecModifier == Init /\ [][NextModifier]_vars

(***************************************************************************)
(* Calls: one function of the program called on its own, on arguments      *)
(* drawn from bounded sets.                                                 *)
(***************************************************************************)
MaxTokenLen == 3

MaxWordLen == 2

\* the characters of the tokens: letters, a digit and a character of two bytes
TokenChars == {"v", "i", "w", "1", "é"}

RECURSIVE WordsOfLen(_)
WordsOfLen(n) == IF n = 0 THEN {""} ELSE {c \o w : c \in TokenChars, w \in WordsOfLen(n - 1)}

WordsUpTo(n) == UNION {WordsOfLen(k) : k \in 0..n}

\* the tokens matched: the short words, and words two candidates are equally close to
MatchTokens == WordsUpTo(MaxTokenLen) \cup {"viw", "wah", "aph"}

\* the closed candidate sets of Token::Operator, Token::Modifier, Token::DataModifier
Categories == {OPERATIONS, MODIFIERS, DMODIFIERS}

\* what is left of the VM and of the cells while a function is called on its own
CallFrame ==
    /\ call = NoCall
    /\ UNCHANGED <<vmVars, cellVars>>

\* keyboard_distance_matcher(token, token_type)
MatchKeyword ==
    /\ CallFrame
    /\ \E token \in MatchTokens : \E candidates \in Categories :
           /\ call' = [fn |-> "keyboard_distance_matcher", args |-> <<token, candidates>>]
           /\ ret' = KeyboardDistanceMatcher(token, candidates)

\* degree_of_closeness(key, matcher)
Closeness ==
    /\ CallFrame
    /\ \E key \in WordsUpTo(MaxWordLen) \cup {"abc"} :
           \E matcher \in WordsUpTo(MaxWordLen) \cup {"abc"} :
               /\ call' = [fn |-> "degree_of_closeness", args |-> <<key, matcher>>]
               /\ ret' = DegreeOfCloseness(key, matcher)

MaxQuoteTokens == 3

\* the tokens of a line a literal is read from: no whitespace in them, none empty
QuoteTokens == {"\"", "\"\"", "\"a\"", "\"a", "a\"", "a", "é\"", "a\"b"}

QuoteStreams == UNION {[1..n -> QuoteTokens] : n \in 0..MaxQuoteTokens}

\* VM::parse_double_quote(token)
QuoteCall ==
    /\ CallFrame
    /\ \E token \in QuoteStreams :
           /\ call' = [fn |-> "parse_double_quote", args |-> <<token>>]
           /\ ret' = ParseDoubleQuote(token, 1)

MaxLiteralLen == 3

LiteralChars == {"1", "5", ".", "-", "t"}

RECURSIVE LiteralsOfLen(_)
LiteralsOfLen(n) ==
    IF n = 0 THEN {""} ELSE {c \o w : c \in LiteralChars, w \in LiteralsOfLen(n - 1)}

\* the strings a Cell is parsed from
CellLiterals ==
    UNION {LiteralsOfLen(k) : k \in 0..MaxLiteralLen}
        \cup {"true", "false", "True", "+5", "1 1", " 5", "é"}

\* Cell::from_str(s)
CellCall ==
    /\ CallFrame
    /\ \E s \in CellLiterals :
           /\ call' = [fn |-> "Cell::from_str", args |-> <<s>>]
           /\ ret' = CellFromStr(s)

\* the letters looked up: a to z
Letters == {Char(Alphabet, i) : i \in 1..26}

\* KeyBoard::lookup(a, b), on every ordered pair of letters; Some(distance) is returned
\* as Ok(distance)
LookupCall ==
    /\ CallFrame
    /\ \E a \in Letters : \E b \in Letters :
           /\ call' = [fn |-> "lookup", args |-> <<a, b>>]
           /\ ret' = Ok(Lookup(a, b))

NextCall ==
    \/ MatchKeyword
    \/ Closeness
    \/ QuoteCall
    \/ CellCall
    \/ LookupCall

SpecCall == Init /\ [][NextCall]_vars

(***************************************************************************)
(* Ranges: a closure applied to a table of texts over every pair of a      *)
(* start and an end cell, the cells just outside the table included.       *)
(***************************************************************************)
MaxRangeRows == 2

MaxRangeCols == 2

RangeLetters == "bcdefghijklmnopq"

\* a table of MaxRangeRows rows of MaxRangeCols texts, each cell another letter
RangeTable ==
    [title |-> "t", ident |-> "t",
     headers |-> [j \in 1..MaxRangeCols |-> CellString("H")],
     rows |-> [i \in 1..MaxRangeRows |->
                 [j \in 1..MaxRangeCols |->
                    CellString(Char(RangeLetters, (i - 1) * MaxRangeCols + j))]]]

\* the cells a range starts and ends in
RangeCells == (0..(MaxRangeRows + 1)) \X (0..MaxRangeCols)

\* closures of the script each: the coordinates of the cell, the text of the cell, and
\* the text of the cell with the accumulator in the first cell of the table
EachClosures ==
    {"auto;each!acc!~op a + ~cell.x + ~cell.y +;",
     "auto;each!acc!~op ~cell +;",
     "0,0;each!acc!~op ~cell +;"}

\* closures of the script raw
RawClosures ==
    {"auto;raw!acc!~op a + ~cell.x + ~cell.y +;",
     "auto;raw!acc!~op ~cell +;",
     "0,0;raw!acc!~cell;"}

\* TableClosure::new(defination).apply(table, cell_start, cell_end, ..)
ApplyCall(fn, definations) ==
    /\ call = NoCall
    /\ \E defination \in definations : \E cell_start \in RangeCells : \E cell_end \in RangeCells :
           /\ call' = [fn |-> fn, args |-> <<defination, cell_start, cell_end>>]
           /\ ret' = ClosureApply(TableClosureNew(defination).val, RangeTable,
                                  cell_start, cell_end)
    /\ UNCHANGED <<vmVars, cellVars>>

\* prescripts: the automatic accumulator, literal accumulators of numbers, of the
\* coordinates of the current cell and of a text, and registers
Prescripts ==
    {"auto", "0,0", "1.5,0.5", "~cell.x,~cell.y", "~cell.x,0", "~cell.x 2 +,0", "a,0",
     "0,a", "0 1 -,0", "reg!2", "auto!reg!1", ""}

\* FunctionExecutor::apply up to the end of apply_prescript, on a fresh executor
PrescriptCall ==
    /\ call = NoCall
    /\ \E prescript \in Prescripts : \E cell_start \in RangeCells : \E cell_end \in RangeCells :
           /\ ~TupleLt(Dimensions(RangeTable), cell_start)
           /\ ~TupleLt(Dimensions(RangeTable), cell_end)
           /\ call' = [fn |-> "apply_prescript", args |-> <<prescript, cell_start, cell_end>>]
           /\ ret' = ApplyPrescript(TableClosureRec(prescript, "", ""),
                                    ExecState(RangeTable, <<>>, <<>>, ""),
                                    cell_start, cell_end)
    /\ UNCHANGED <<vmVars, cellVars>>

EachCall == ApplyCall("each", EachClosures)

RawCall == ApplyCall("raw", RawClosures)

\* closures by the storage their script names: an accumulator that was not bound,
\* registers past the allocated ones, another word, none, and storages that exist
StorageClosures ==
    {"reg!2;each!acc!+;",
     "reg!2;each!reg!2!+;",
     "reg!2;raw!reg!5!+;",
     "auto;each!mem!+;",
     "auto;raw!reg!0!+;",
     "auto;each;",
     "reg!2;each!reg!1!~op ~cell +;",
     "reg!2;raw!reg!0!~cell;",
     "auto!reg!1;each!reg!0!~op ~cell +;",
     "auto!reg!1;raw!reg!0!~cell;",
     "auto;each!acc!~op ~cell +;"}

\* closures by the tokens of their script: more tokens after the command, a first
\* token that is no command, a command in blanks, no token
ScriptClosures ==
    {"auto!reg!2;each!acc!~op ~cell +;",
     "auto!reg!2;each!acc!~op ~cell +!raw!acc!a;",
     "auto!reg!2;each!acc!~op ~cell +!bogus;",
     "auto;raw!acc!~cell;",
     "auto;raw!acc!~cell!each!acc!~op ~cell +;",
     "auto; each !acc!~op ~cell +;",
     "auto;acc!each!~op ~cell +;",
     "auto;sum!acc!~op ~cell +;",
     "auto;;"}

StorageCall == ApplyCall("storage", StorageClosures)

ScriptCall == ApplyCall("script", ScriptClosures)

\* closures whose expression fails: on the first cell (a text is multiplied), on the
\* cells of column 1 (a division by 1 - 1), and with the accumulator in a new row
FailingClosures ==
    {"0,0;each!acc!~op ~cell *;",
     "0,0;each!acc!~op 1 1 ~cell.y - / +;",
     "0,1;raw!acc!~op ~cell *;",
     "auto;raw!acc!1 0 /;",
     "auto;each!acc!~op 1 1 ~cell.y - / +;"}

FailingCall == ApplyCall("failing", FailingClosures)

NextRange ==
    \/ EachCall
    \/ RawCall
    \/ PrescriptCall
    \/ StorageCall
    \/ ScriptCall
    \/ FailingCall

SpecRange == Init /\ [][NextRange]_vars

(***************************************************************************)
(* Expressions: do_artihmetic on every short stream of tokens, with the    *)
(* text s as the storage value and the cell (0, 1) as the current cell.    *)
(***************************************************************************)
MaxEvalLen == 3

EvalTokens == {"3", "5", "x", "+", "-", "/", "%", "&", "^", "~fn", "~op", "~cell.y"}

EvalStreams == UNION {[1..n -> EvalTokens] : n \in 0..MaxEvalLen}

\* FunctionExecutor::do_artihmetic(raw_input, storage_cell, (0, 1), table, ..)
EvalCall ==
    /\ call = NoCall
    /\ \E tokens \in EvalStreams :
           /\ call' = [fn |-> "do_artihmetic", args |-> <<tokens>>]
           /\ ret' = DoArithmetic(Join(tokens, " "), CellString("s"), <<0, 1>>, RangeTable)
    /\ UNCHANGED <<vmVars, cellVars>>

NextEval == EvalCall

SpecEval == Init /\ [][NextEval]_vars

(***************************************************************************)
(* Store: tables and closures made and made again under a few names, by    *)
(* lines that succeed and lines that fail.                                 *)
(***************************************************************************)
\* define lines: the text of the line, the name it defines, and the three segments of
\* its definition as the closure holds them
DefineLines ==
    {[text |-> "f define auto;each!acc!~op ~cell +;",
      name |-> "f", pre |-> "auto", scr |-> "each!acc!~op ~cell +", post |-> ""],
     [text |-> "g define auto;raw!acc!~cell;",
      name |-> "g", pre |-> "auto", scr |-> "raw!acc!~cell", post |-> ""],
     [text |-> "f define 0,0;raw!acc!~cell;p;rest;more",
      name |-> "f", pre |-> "0,0", scr |-> "raw!acc!~cell", post |-> "p"],
     [text |-> "f  define  auto ;  each!acc!~op   ~cell + ; p q;x",
      name |-> "f", pre |-> "auto ", scr |-> " each!acc!~op ~cell + ", post |-> " p q"],
     [text |-> "t define ;;;",
      name |-> "t", pre |-> "", scr |-> "", post |-> ""]}

\* lines on tables: names made, made again, a line that fails once its table is made,
\* lines that change no table; define lines of no segment, one segment, two segments
StoreTexts ==
    {"t create",
     "u create with title \"T\"",
     "t = with title \"U\" and headers \"H1\"",
     "u create with ti \"T\"",
     "f create",
     "w view",
     "g define auto",
     "g define",
     "g define auto;each!acc!~op ~cell +"}

DefineLine == \E line \in DefineLines : Submit(line.text, "Ok")

StoreLine == \E text \in StoreTexts : Submit(text, "Ok")

NextStore ==
    \/ DefineLine
    \/ StoreLine

SpecStore == Init /\ [][NextStore]_vars

(***************************************************************************)
(* Frame: two tables and a closure, and lines that fail after or before    *)
(* they have changed something.                                            *)
(***************************************************************************)
FrameTexts ==
    {"u create with headers \"H1\"",
     "u add_row \"7\"",
     "t apply sum 0 0",
     "u apply sum 0 0",
     "u apply sum 5 5",
     "t apply sum 0 x",
     "t apply nope 0 0",
     "u create with ti \"T\"",
     "t create with header \"H1\" and",
     "u headers \"H2\" x",
     "t add_row 5",
     "w view",
     "u v",
     "nope define auto"}

FrameLine == \E text \in FrameTexts : Submit(text, "Ok")

NextFrame ==
    \/ SetupLine
    \/ FrameLine
    \/ ExternalLine

SpecFrame == Init /\ [][NextFrame]_vars

(***************************************************************************)
(* Drivers (main.rs): a script of lines is fed to a new VM, either by the  *)
(* batch loop of exec_output!, which calls interpret_next_line on each     *)
(* line of the input file and writes the output file after the last one,   *)
(* or by the REPL loop, which calls interpret on each line read.  batch    *)
(* holds the mode, the lines, how many of them were taken (index), the     *)
(* line number an error was reported with, and the output file.            *)
(***************************************************************************)
MaxLines == 3

ScriptLines ==
    {"t create with headers \"H1\"",
     "t add_row \"5\"",
     "t ad",
     "w view",
     "help",
     "sum define auto"}

Scripts == UNION {[1..n -> ScriptLines] : n \in 1..MaxLines}

\* impl Save for VM :: to_csv
VMToCsv(vm) == Join([i \in 1..Len(vm.tables) |-> ToCsv(vm.tables[i])], "\n")

InitBatch ==
    /\ code_text = ""
    /\ pointer = 0
    /\ tables = <<>>
    /\ tables_idx = EmptyMap
    /\ closure_idx = EmptyMap
    /\ closures = <<>>
    /\ result = "Ok"
    /\ stdout = ""
    /\ cellA = CellEmpty
    /\ cellB = CellEmpty
    /\ cellOp = ""
    /\ cellExpr = ""
    /\ cellRes = Ok(CellEmpty)
    /\ call = NoCall
    /\ ret = Ok("")
    /\ \E mode \in {"batch", "repl"} : \E lines \in Scripts :
           batch = [NoBatch EXCEPT !.mode = mode, !.lines = lines, !.status = "running"]

\* the VM takes what an interpreter call left
Left(o) ==
    /\ code_text' = o.vm.code_text
    /\ pointer' = o.vm.pointer
    /\ tables' = o.vm.tables
    /\ tables_idx' = o.vm.tables_idx
    /\ closure_idx' = o.vm.closure_idx
    /\ closures' = o.vm.closures
    /\ result' = o.res
    /\ stdout' = o.out

\* the batch loop with the error of a line logged and the loop going on
BatchLineGoingOn ==
    /\ batch.mode = "batch"
    /\ batch.status = "running"
    /\ batch.index < Len(batch.lines)
    /\ \E o \in {InterpretNextLine([TheVM EXCEPT !.code_text = batch.lines[batch.index + 1],
                                              !.pointer = 0], "Ok")} :
           /\ Left(o)
           /\ batch' = [batch EXCEPT !.index = @ + 1,
                                     !.status = IF o.res = "Panic" THEN "panicked" ELSE @]
    /\ UNCHANGED <<cellVars, callVars>>

\* exec_output!, the body of the loop over the lines of the input file: the line is
\* interpreted, and an error ends the run with the number of the line
BatchLine ==
    /\ batch.mode = "batch"
    /\ batch.status = "running"
    /\ batch.index < Len(batch.lines)
    /\ \E o \in {InterpretNextLine([TheVM EXCEPT !.code_text = batch.lines[batch.index + 1],
                                              !.pointer = 0], "Ok")} :
           /\ Left(o)
           /\ batch' = [batch EXCEPT
                            !.index = @ + 1,
                            !.status = CASE o.res = "Ok" -> "running"
                                         [] o.res = "Panic" -> "panicked"
                                         [] OTHER -> "failed",
                            !.reported = IF o.res \in {"Ok", "Panic"} THEN 0
                                         ELSE batch.index + 1]
    /\ UNCHANGED <<cellVars, callVars>>

\* exec_output!, after the loop: the output file is written
BatchWrite ==
    /\ batch.mode = "batch"
    /\ batch.status = "running"
    /\ batch.index = Len(batch.lines)
    /\ batch' = [batch EXCEPT !.status = "written", !.written = TRUE,
                              !.output = VMToCsv(TheVM)]
    /\ UNCHANGED <<code_text, pointer, tables, tables_idx, closure_idx, closures,
                   result, stdout, cellVars, callVars>>

\* main, the body of the REPL loop: a line that starts with help is passed over, any
\* other is interpreted and its error printed
ReplLine ==
    /\ batch.mode = "repl"
    /\ batch.status = "running"
    /\ batch.index < Len(batch.lines)
    /\ IF StartsWith(batch.lines[batch.index + 1], "help")
       THEN /\ batch' = [batch EXCEPT !.index = @ + 1]
            /\ UNCHANGED <<code_text, pointer, tables, tables_idx, closure_idx, closures,
                           result, stdout>>
       ELSE \E o \in {VMInterpret([TheVM EXCEPT !.code_text = batch.lines[batch.index + 1],
                                                !.pointer = 0], "Ok", "")} :
                /\ Left(o)
                /\ batch' = [batch EXCEPT
                                 !.index = @ + 1,
                                 !.status = IF o.res = "Panic" THEN "panicked" ELSE @]
    /\ UNCHANGED <<cellVars, callVars>>

\* main, the end of the input: the loop is left
ReplEof ==
    /\ batch.mode = "repl"
    /\ batch.status = "running"
    /\ batch.index = Len(batch.lines)
    /\ batch' = [batch EXCEPT !.status = "eof"]
    /\ UNCHANGED <<code_text, pointer, tables, tables_idx, closure_idx, closures,
                   result, stdout, cellVars, callVars>>

NextBatch ==
    \/ BatchLine
    \/ BatchWrite
    \/ ReplLine
    \/ ReplEof

SpecBatch == InitBatch /\ [][NextBatch]_vars

(***************************************************************************)
(* Lines: a source text of several lines handed to the VM whole, and read  *)
(* by interpret_next_line one call at a time or by interpret to its end    *)
(* (main.rs, the tests: VM::new(text), then interpret_next_line()).         *)
(***************************************************************************)
MaxTextLines == 3

\* the lines of the texts: lines that succeed, empty and whitespace-only lines, lines
\* that fail
TextLines == {"t create", "", " ", "t add_row \"1\"", "x view", "t view"}

\* the texts: up to MaxTextLines lines, the last one with its terminator or without
SourceTexts ==
    UNION {{Join(lines, "\n") \o last : lines \in [1..n -> TextLines], last \in {"", "\n"}}
           : n \in 1..MaxTextLines}

\* VM::new(code)
InitLines ==
    /\ code_text \in SourceTexts
    /\ pointer = 0
    /\ tables = <<>>
    /\ tables_idx = EmptyMap
    /\ closure_idx = EmptyMap
    /\ closures = <<>>
    /\ result = "Ok"
    /\ stdout = ""
    /\ cellA = CellEmpty
    /\ cellB = CellEmpty
    /\ cellOp = ""
    /\ cellExpr = ""
    /\ cellRes = Ok(CellEmpty)
    /\ call = NoCall
    /\ ret = Ok("")
    /\ batch = NoBatch

\* vm.interpret_next_line(), wherever the cursor is; the VM the call was made on is
\* kept as its argument, and the line of carets of the error it returned is in ret
NextLineCall ==
    /\ result # "Panic"
    /\ \E o \in {InterpretNextLine(TheVM, "Ok")} :
           /\ Left(o)
           /\ call' = [fn |-> "interpret_next_line", args |-> <<TheVM>>]
           /\ ret' = ErrorCarets(TheVM, CodeLine(TheVM))
    /\ UNCHANGED <<cellVars, batch>>

\* vm.interpret(), from wherever the cursor is
InterpretCall ==
    /\ result # "Panic"
    /\ call.fn # "interpret"
    /\ \E o \in {VMInterpret(TheVM, "Ok", "")} :
           /\ Left(o)
           /\ call' = [fn |-> "interpret", args |-> <<TheVM>>]
           /\ ret' = IF o.res = "Ok" THEN Ok("") ELSE Err(o.res)
    /\ UNCHANGED <<cellVars, batch>>

NextLines ==
    \/ NextLineCall
    \/ InterpretCall

SpecLines == InitLines /\ [][NextLines]_vars

(***************************************************************************)
(* Reports: a table is made, then one line that fails is read; the tokens  *)
(* of the line are set apart by one space or by more.                      *)
(***************************************************************************)
MaxGap == 2

\* the tokens of the lines that fail: at the operator, at the table name, at a token
\* after one or two literals, at a modifier keyword, at a closure name
ReportTokens ==
    {<<"t">>,
     <<"t", "viw">>,
     <<"u", "view">>,
     <<"t", "add_row", "\"1\"", "x">>,
     <<"t", "add_row", "\"a", "b\"", "x">>,
     <<"t", "add_row", "\"a", "b">>,
     <<"t", "headers", "\"H\"", "\"a", "b", "c\"", "y">>,
     <<"t", "create", "with">>,
     <<"t", "create", "with", "titel", "\"T\"">>,
     <<"t", "=", "with", "title", "and", "x">>,
     <<"t", "create", "x", "with", "title", "\"A", "B\"", "and", "hdr">>,
     <<"t", "apply", "g", "0", "0">>}

RECURSIVE Blanks(_)
Blanks(n) == IF n = 0 THEN "" ELSE " " \o Blanks(n - 1)

\* the line of the tokens from the k-th on, gaps[k] spaces after the k-th token
RECURSIVE Spaced(_, _, _)
Spaced(tokens, gaps, k) ==
    IF k = Len(tokens) THEN tokens[k]
    ELSE tokens[k] \o Blanks(gaps[k]) \o Spaced(tokens, gaps, k + 1)

ReportLines ==
    UNION {{Spaced(tokens, gaps, 1) : gaps \in [1..(Len(tokens) - 1) -> 1..MaxGap]}
           : tokens \in ReportTokens}

\* VM::new(code), on a line that makes the table t and one of the lines
InitReports ==
    /\ code_text \in {"t create\n" \o line : line \in ReportLines}
    /\ pointer = 0
    /\ tables = <<>>
    /\ tables_idx = EmptyMap
    /\ closure_idx = EmptyMap
    /\ closures = <<>>
    /\ result = "Ok"
    /\ stdout = ""
    /\ cellA = CellEmpty
    /\ cellB = CellEmpty
    /\ cellOp = ""
    /\ cellExpr = ""
    /\ cellRes = Ok(CellEmpty)
    /\ call = NoCall
    /\ ret = Ok("")
    /\ batch = NoBatch

NextReports == NextLineCall

SpecReports == InitReports /\ [][NextReports]_vars

(***************************************************************************)
(* Properties.                                                             *)
(***************************************************************************)

\* C1: after any sequence of lines, every body row of every table has exactly as
\* many cells as the table has headers.
C1_RowsMatchHeaders ==
    \A i \in 1..Len(tables) :
        \A r \in 1..Len(tables[i].rows) :
            Len(tables[i].rows[r]) = Len(tables[i].headers)

\* C2: a create line that names an existing table leaves the name in its slot and
\* the number of tables as it was, leaves every other table alone, and puts in the
\* slot exactly the table the same line makes in a VM with no tables: no row and no
\* header or title of the old table is left, and after a bare `t create` the table
\* has title t, no headers and no rows.
C2_RecreateReplacesInPlace ==
    [][\A text \in CreateTexts :
           (code_text' = text /\ NameOf(text) \in DOMAIN tables_idx) =>
               LET slot == tables_idx[NameOf(text)] + 1
                   fresh == VMInterpret(VMNew(text), "Ok", "").vm.tables[1]
               IN  /\ result' = "Ok"
                   /\ tables_idx' = tables_idx
                   /\ Len(tables') = Len(tables)
                   /\ \A i \in 1..Len(tables) : i # slot => tables'[i] = tables[i]
                   /\ tables'[slot] = fresh
                   /\ tables'[slot].rows = <<>>
                   /\ text = "t create" =>
                          tables'[slot] = [title |-> "t", ident |-> "t",
                                           headers |-> <<>>, rows |-> <<>>]]_vars

\* t was made before u and the last line has made it again: it is in its old slot,
\* empty
C2_Recreated ==
    /\ code_text = "t create"
    /\ result = "Ok"
    /\ DOMAIN tables_idx = {"t", "u"}
    /\ tables_idx["t"] = 0
    /\ tables_idx["u"] = 1
    /\ tables[1] = TableNew("t")
    /\ tables[2].headers # <<>>

\* C3: an add_row line of k values on a table of header width w > 0 appends exactly
\* one row of w cells, the first min(k, w) of them the parsed values in order and the
\* rest Empty; on a table without headers it adds no row and changes nothing.
C3_AppendPadsAndTruncates ==
    [][\A values \in RowValues :
           (code_text' = AddRowText("t", values) /\ "t" \in DOMAIN tables_idx) =>
               LET slot == tables_idx["t"] + 1
                   w == Len(tables[slot].headers)
                   Parsed(v) == CASE v = "5" -> CellNumber(5, 1)
                                  [] v = "1" -> CellNumber(1, 1)
                                  [] v = "true" -> CellBoolean(TRUE)
                                  [] v = "" -> CellEmpty
                                  [] OTHER -> CellString(v)
                   row == [i \in 1..w |->
                             IF i <= Len(values) THEN Parsed(values[i]) ELSE CellEmpty]
               IN  /\ result' = "Ok"
                   /\ tables' = [tables EXCEPT ![slot].rows =
                                                   IF w > 0 THEN Append(@, row) ELSE @]
                   /\ UNCHANGED <<tables_idx, closures, closure_idx>>]_vars

\* three values were appended to a table of two headers: the third was dropped
C3_Truncated ==
    /\ code_text = AddRowText("t", <<"", "true", "a b">>)
    /\ result = "Ok"
    /\ "t" \in DOMAIN tables_idx
    /\ Len(tables[tables_idx["t"] + 1].headers) = 2
    /\ Len(tables[tables_idx["t"] + 1].rows) = 2
    /\ tables[tables_idx["t"] + 1].rows[2] = <<CellEmpty, CellBoolean(TRUE)>>

\* C4: an apply line on an existing table that names a closure which is not defined
\* fails with the undefined-closure error, whatever follows the name, and leaves the
\* tables, the closures and both indexes as they were.
C4_UndefinedClosureChangesNothing ==
    [][\A text \in UndefinedClosureTexts :
           (/\ code_text' = text
            /\ NameOf(text) \in DOMAIN tables_idx
            /\ SplitWhitespace(text)[3] \notin DOMAIN closure_idx) =>
               /\ result' = "UndefinedClosure"
               /\ stdout' = ""
               /\ UNCHANGED <<tables, tables_idx, closures, closure_idx>>]_vars

\* the closure nope was applied to a table that has a row
C4_UndefinedClosureRefused ==
    /\ code_text = "t apply nope 0 0"
    /\ result = "UndefinedClosure"
    /\ "t" \in DOMAIN tables_idx
    /\ Len(tables[tables_idx["t"] + 1].rows) = 1
    /\ DOMAIN closure_idx = {"sum"}

\* C5: the closure auto;each!acc!~op ~cell +; applied over a range of one cell that
\* holds Number(5) and lies in the last row of the table succeeds, appends exactly one
\* row, and leaves Number(5) in that row at the column of the range, the rows above
\* as they were.
C5_AutoAccumulatesIntoNewRow ==
    [][\A coords \in ApplyRanges :
           (/\ code_text' = ApplyText("t", "sum", coords)
            /\ "t" \in DOMAIN tables_idx
            /\ "sum" \in DOMAIN closure_idx
            /\ closures[closure_idx["sum"] + 1]
                   = [prescript |-> "auto", script |-> "each!acc!~op ~cell +",
                      postscript |-> ""]
            /\ Len(coords) = 4 => (coords[3] = coords[1] /\ coords[4] = coords[2])
            /\ coords[1] + 1 = Len(tables[tables_idx["t"] + 1].rows)
            /\ coords[2] < Len(tables[tables_idx["t"] + 1].headers)
            /\ tables[tables_idx["t"] + 1].rows[coords[1] + 1][coords[2] + 1]
                   = CellNumber(5, 1)) =>
               LET slot == tables_idx["t"] + 1
                   rows == tables[slot].rows
               IN  /\ result' = "Ok"
                   /\ Len(tables'[slot].rows) = Len(rows) + 1
                   /\ SubSeq(tables'[slot].rows, 1, Len(rows)) = rows
                   /\ tables'[slot].rows[Len(rows) + 1][coords[2] + 1] = CellNumber(5, 1)
                   /\ tables'[slot].headers = tables[slot].headers]_vars

\* sum was applied to the cell (0, 0), which held 5 in the only row
C5_Accumulated ==
    /\ code_text = ApplyText("t", "sum", <<0, 0>>)
    /\ result = "Ok"
    /\ "t" \in DOMAIN tables_idx
    /\ tables[tables_idx["t"] + 1].rows
           = <<<<CellNumber(5, 1), CellBoolean(TRUE)>>, <<CellNumber(5, 1), CellEmpty>>>>

\* C6: a * b fails if and only if a or b is Text; a / b fails if and only if a or b
\* is Text or b is Number(0) or Boolean(false).
C6_MulDivFailExactlyOnTextOrZero ==
    LET text == cellA.tag = "String" \/ cellB.tag = "String"
        zero == \/ cellB.tag = "Number" /\ cellB.n = 0
                \/ cellB.tag = "Boolean" /\ ~cellB.b
    IN  /\ cellOp = "*" => (~cellRes.ok <=> text)
        /\ cellOp = "/" => (~cellRes.ok <=> (text \/ zero))

\* C7: a + b and a - b return a Cell for every pair of cells, and a postfix
\* expression over +, -, cell references in range and literals either returns a Cell
\* or fails on the shape of its stack: not enough operands, or too many values.
C7_AddSubNeverFail ==
    LET IsCell(c) == c.tag \in {"String", "Number", "Boolean", "Empty"}
    IN  /\ cellOp \in {"+", "-"} => cellRes.ok /\ IsCell(cellRes.val)
        /\ (cellExpr # "" /\ Find(cellExpr, "*") = 0) =>
               \/ cellRes.ok /\ IsCell(cellRes.val)
               \/ ~cellRes.ok /\ cellRes.err \in {"NotEnoughOperands", "TooManyValues"}

\* a number was subtracted from a text, operation and expression
C7_TextMinusNumber ==
    /\ cellA = CellString("x")
    /\ cellB = CellNumber(2, 1)
    /\ \/ cellOp = "-"
       \/ cellExpr = "~op ~cell -"
    /\ cellRes = Ok(CellString("x"))

\* C8: the text a view line prints is the title and a newline, the rendering of every
\* header cell followed by a comma and then a newline, and for every row in order the
\* rendering of every cell followed by a comma and then a newline; title T, headers
\* H1 and H2 and the one row 1, x print as "T\nH1,H2,\n1,x,\n".
C8_ViewPrintsCsv ==
    (code_text = "t view" /\ "t" \in DOMAIN tables_idx) =>
        LET t == tables[tables_idx["t"] + 1]
            Line(cells) == Join([i \in 1..Len(cells) |-> CellDisplay(cells[i]) \o ","], "")
        IN  /\ stdout = t.title \o "\n" \o Line(t.headers) \o "\n"
                            \o Join([r \in 1..Len(t.rows) |-> Line(t.rows[r]) \o "\n"], "")
            /\ (/\ t.title = "T"
                /\ t.headers = <<CellString("H1"), CellString("H2")>>
                /\ t.rows = <<<<CellNumber(1, 1), CellString("x")>>>>) =>
                   stdout = "T\nH1,H2,\n1,x,\n"

\* the table of the example was viewed
C8_ExampleViewed ==
    /\ code_text = "t view"
    /\ "t" \in DOMAIN tables_idx
    /\ tables[tables_idx["t"] + 1]
           = [title |-> "T", ident |-> "t",
              headers |-> <<CellString("H1"), CellString("H2")>>,
              rows |-> <<<<CellNumber(1, 1), CellString("x")>>>>]
    /\ stdout = "T\nH1,H2,\n1,x,\n"

\* C9: a line whose operator is add_row, headers, apply, view or prompt and whose
\* first token names no existing table fails with the no-table-found error, and no
\* table or closure is made or changed.
C9_MissingTableIsRefused ==
    [][\A text \in MissingTableTexts :
           (/\ code_text' = text
            /\ Len(SplitWhitespace(text)) >= 2
            /\ SplitWhitespace(text)[2] \in {"add_row", "headers", "apply", "view", "prompt"}
            /\ NameOf(text) \notin DOMAIN tables_idx) =>
               /\ result' = "NoTableFound"
               /\ UNCHANGED <<tables, tables_idx, closures, closure_idx>>]_vars

\* C10: a line whose second token is no operator keyword fails with the
\* invalid-operator error, and no table or closure is made, replaced or changed.
C10_UnknownOperatorIsRefused ==
    [][\A text \in UnknownOperatorTexts :
           (/\ code_text' = text
            /\ Len(SplitWhitespace(text)) >= 2
            /\ SplitWhitespace(text)[2] \notin
                   {"create", "create_table", "=", "add_row", "headers", "apply", "view",
                    "define", "prompt"}) =>
               /\ result' = "InvalidOperator"
               /\ UNCHANGED <<tables, tables_idx, closures, closure_idx>>]_vars

C12_FirstClosestCandidate ==
    call.fn = "keyboard_distance_matcher" =>
        LET token == call.args[1]
            candidates == call.args[2]
            cost == [i \in DOMAIN candidates |-> DegreeOfCloseness(candidates[i], token)]
        IN  /\ ret.ok
            /\ \E i \in DOMAIN candidates :
                   /\ ret.val = candidates[i]
                   /\ \A j \in DOMAIN candidates : cost[i].ok /\ cost[j].ok
                   /\ \A j \in DOMAIN candidates : cost[i].val <= cost[j].val
                   /\ \A j \in 1..(i - 1) : cost[j].val > cost[i].val

\* the same for the tokens of one-byte characters alone, where it holds
AsciiFirstClosestCandidate ==
    (call.fn = "keyboard_distance_matcher" /\ ByteLen(call.args[1]) = Len(call.args[1]))
        => C12_FirstClosestCandidate

\* two candidates of one set are equally close to the token and the closest of all
TiedCandidates ==
    /\ call.fn = "keyboard_distance_matcher"
    /\ ret.ok
    /\ \E i, j \in DOMAIN call.args[2] :
           /\ i < j
           /\ ret.val = call.args[2][i]
           /\ DegreeOfCloseness(call.args[2][i], call.args[1])
                  = DegreeOfCloseness(call.args[2][j], call.args[1])

\* C13: for the unknown operator token viw the suggestion computed against the
\* operator keywords is view.
C13_ViwSuggestsView ==
    (call.fn = "keyboard_distance_matcher" /\ call.args = <<"viw", OPERATIONS>>)
        => ret = Ok("view")

\* viw was matched against the operator keywords, and view is at the cost of the one
\* deleted letter
C13_ViwMatched ==
    /\ call = [fn |-> "keyboard_distance_matcher", args |-> <<"viw", OPERATIONS>>]
    /\ ret.ok
    /\ DegreeOfCloseness("view", "viw") = Ok(8)

\* C14: degree_of_closeness(s, s) is 0 for every non-empty string s of ASCII letters,
\* and when either argument is empty the result is 8 times the sum of the two lengths
\* (str::len, the lengths in bytes): degree_of_closeness("", "abc") is 24.
C14_ClosenessOfEqualAndEmpty ==
    call.fn = "degree_of_closeness" =>
        LET key == call.args[1]
            matcher == call.args[2]
            letters(s) == \A i \in 1..Len(s) : IsAsciiAlphabetic(Char(s, i))
        IN  /\ (key = matcher /\ key # "" /\ letters(key)) => ret = Ok(0)
            /\ (key = "" \/ matcher = "") => ret = Ok(8 * (ByteLen(key) + ByteLen(matcher)))
            /\ (key = "" /\ matcher = "abc") => ret = Ok(24)

\* abc has been compared with itself
C14_EqualWords ==
    /\ call = [fn |-> "degree_of_closeness", args |-> <<"abc", "abc">>]
    /\ ret = Ok(0)

\* C15: when a line fails, every table other than the one its first token names is in
\* its slot exactly as it was, no other table is made, and the closures and their
\* names are exactly as they were.
C15_FailingLineKeepsOtherTables ==
    [][result' \notin {"Ok", "Panic"} =>
           LET name == NameOf(code_text')
           IN  /\ DOMAIN tables_idx \subseteq DOMAIN tables_idx'
               /\ DOMAIN tables_idx' \subseteq DOMAIN tables_idx \cup {name}
               /\ \A n \in DOMAIN tables_idx :
                      /\ tables_idx'[n] = tables_idx[n]
                      /\ n # name => tables'[tables_idx[n] + 1] = tables[tables_idx[n] + 1]
               /\ UNCHANGED <<closures, closure_idx>>]_vars

\* sum has failed on the table u after it gave u an empty row, and the table t has
\* its row
C15_FailedAfterChange ==
    /\ code_text = "u apply sum 0 0"
    /\ result \notin {"Ok", "Panic"}
    /\ DOMAIN tables_idx = {"t", "u"}
    /\ tables[tables_idx["u"] + 1].rows = <<<<CellEmpty>>>>
    /\ Len(tables[tables_idx["t"] + 1].rows) = 1
    /\ closures # <<>>

\* the number of the first line from line k on that does not return Ok when the lines
\* are interpreted one after the other from vm, 0 if every line returns Ok
RECURSIVE FirstNotOk(_, _, _)
FirstNotOk(vm, lines, k) ==
    IF k > Len(lines) THEN 0
    ELSE Only({IF o.res = "Ok" THEN FirstNotOk(o.vm, lines, k + 1) ELSE k
               : o \in {InterpretNextLine([vm EXCEPT !.code_text = lines[k], !.pointer = 0],
                                          "Ok")}})

\* the VM after the first n lines were read by the REPL one after the other from vm,
\* whatever each of them returned
RECURSIVE AfterAll(_, _, _, _)
AfterAll(vm, lines, k, n) ==
    IF k > n THEN vm
    ELSE IF StartsWith(lines[k], "help") THEN AfterAll(vm, lines, k + 1, n)
    ELSE AfterAll(VMInterpret([vm EXCEPT !.code_text = lines[k], !.pointer = 0], "Ok", "").vm,
                  lines, k + 1, n)

\* a batch run that failed: the failing line is the first that does not return Ok, the
\* number reported is its 1-based index, no line after it was taken, no file is written
BatchHalted ==
    (batch.mode = "batch" /\ batch.status = "failed") =>
        /\ batch.reported = FirstNotOk(VMNew(""), batch.lines, 1)
        /\ batch.reported = batch.index
        /\ result \notin {"Ok", "Panic"}
        /\ ~batch.written
        /\ batch.output = ""

\* a REPL that has read lines: its tables and closures are those all the lines read
\* built one after the other, the failed ones included
ReplWentOn ==
    (batch.mode = "repl" /\ batch.status \in {"running", "eof"}) =>
        LET vm == AfterAll(VMNew(""), batch.lines, 1, batch.index)
        IN  /\ tables = vm.tables
            /\ tables_idx = vm.tables_idx
            /\ closures = vm.closures
            /\ closure_idx = vm.closure_idx

\* a batch run that has written its file: every line returned Ok
BatchWroteAfterAll ==
    (batch.mode = "batch" /\ batch.written) =>
        /\ FirstNotOk(VMNew(""), batch.lines, 1) = 0
        /\ batch.index = Len(batch.lines)
        /\ batch.output = VMToCsv(TheVM)

\* C16: in batch mode the run stops at the first line that fails: no later line is
\* executed, the line number reported is the 1-based index of that line and no output
\* file is written; in REPL mode a failing line is reported and the next line is read,
\* on the tables and closures the earlier lines built.
C16_BatchHaltsReplGoesOn ==
    /\ [](BatchHalted /\ ReplWentOn /\ BatchWroteAfterAll)
    /\ [][/\ (batch.mode = "batch" /\ batch.status = "failed") => FALSE
          /\ (batch.mode = "repl" /\ batch.status = "running"
              /\ batch.index < Len(batch.lines) /\ result' # "Panic") =>
                 /\ batch'.index = batch.index + 1
                 /\ batch'.status = "running"]_vars

\* a batch run of three lines has failed at the second: the table of the first line is
\* there, the row of the third is not, and nothing is written
C16_BatchFailedAtSecondLine ==
    /\ batch.mode = "batch"
    /\ batch.lines = <<"t create with headers \"H1\"", "t ad", "t add_row \"5\"">>
    /\ batch.status = "failed"
    /\ batch.reported = 2
    /\ result = "InvalidOperator"
    /\ tables = <<[title |-> "t", ident |-> "t", headers |-> <<CellString("H1")>>,
                   rows |-> <<>>]>>
    /\ ~batch.written

\* the REPL has read the same three lines: the row of the third line is in the table
ReplReadPastFailure ==
    /\ batch.mode = "repl"
    /\ batch.lines = <<"t create with headers \"H1\"", "t ad", "t add_row \"5\"">>
    /\ batch.status = "eof"
    /\ result = "Ok"
    /\ tables[1].rows = <<<<CellNumber(5, 1)>>>>

\* the first position from i on of a token that ends in a double quote, 0 where none does
FirstClosing(token, i) ==
    IF \E j \in i..Len(token) : EndsWith(token[j], "\"")
    THEN CHOOSE j \in i..Len(token) :
             /\ EndsWith(token[j], "\"")
             /\ \A k \in i..(j - 1) : ~EndsWith(token[k], "\"")
    ELSE 0

\* the text of a literal that opens in token[1] and is not closed there
LiteralText(token) ==
    LET k == FirstClosing(token, 2)
        first == StrFrom(token[1], 2)
    IN  IF k = 0 THEN Join(<<first>> \o SubSeq(token, 2, Len(token)), " ")
        ELSE Join(<<first>> \o SubSeq(token, 2, k - 1)
                      \o <<SubSeq(token[k], 1, Len(token[k]) - 1)>>, " ")

\* C17: parse_double_quote on a first token that opens and closes with a double quote
\* and is longer than one character returns the text between the quotes; on another
\* first token that opens with a double quote it returns that token without its quote
\* and the following tokens, each after one space, up to and with the first token that
\* ends in a double quote, that quote dropped, or up to the end of the line if no token
\* ends in one, and that is a success too; a first token that does not open with a
\* double quote is an error.
C17_QuotedLiteral ==
    call.fn = "parse_double_quote" =>
        LET token == call.args[1]
        IN  IF token = <<>> \/ ~StartsWith(token[1], "\"")
            THEN ~ret.ok
            ELSE /\ ret.ok
                 /\ ret.val =
                        IF EndsWith(token[1], "\"") /\ Len(token[1]) > 1
                        THEN SubSeq(token[1], 2, Len(token[1]) - 1)
                        ELSE LiteralText(token)

\* a literal of two words the line ends in without closing it was read as a success
C17_UnclosedLiteralRead ==
    /\ call = [fn |-> "parse_double_quote", args |-> <<(<<"\"a", "a">>)>>]
    /\ ret.ok
    /\ ret.val = "a a"
    /\ ~ret.closed

\* a literal of three words was read up to its closing quote
ClosedLiteralRead ==
    /\ call = [fn |-> "parse_double_quote", args |-> <<(<<"\"a", "a", "a\"">>)>>]
    /\ ret.ok
    /\ ret.val = "a a a"

\* C18: Cell::from_str returns Ok for every string: Empty for the empty string, else
\* Number with the parsed value for a string that parses as a number, else Boolean for
\* "true" and "false", else String with the very string.
C18_CellLiteralTotal ==
    call.fn = "Cell::from_str" =>
        LET s == call.args[1]
        IN  /\ ret.ok
            /\ ret.err = ""
            /\ ret.val =
                   IF s = "" THEN CellEmpty
                   ELSE IF ParseF64(s).ok THEN ParseF64(s).val
                   ELSE IF s = "true" THEN CellBoolean(TRUE)
                   ELSE IF s = "false" THEN CellBoolean(FALSE)
                   ELSE CellString(s)
            /\ (s = "1.5" => ret.val = CellNumber(3, 2))
            /\ (s = "-5" => ret.val = CellNumber(-5, 1))
            /\ (s \in {"True", "t", "1 1", "-", ".", "1-"} => ret.val = CellString(s))

\* the empty string was parsed
C18_EmptyParsed ==
    /\ call = [fn |-> "Cell::from_str", args |-> <<"">>]
    /\ ret = Ok(CellEmpty)

\* a number, a boolean and a text were parsed
NumberParsed ==
    /\ call = [fn |-> "Cell::from_str", args |-> <<"1.5">>]
    /\ ret = Ok(CellNumber(3, 2))

\* the k-th cell of the rectangle from start to end, counted row after row from 1
RangeCoord(start, end, k) ==
    LET width == end[2] - start[2] + 1
    IN  <<start[1] + ((k - 1) \div width), start[2] + ((k - 1) % width)>>

\* the storage value after the first n evaluations of expr over the rectangle, each on
\* the value the one before it returned, or the error of the first that failed
RECURSIVE LeftFold(_, _, _, _, _, _)
LeftFold(expr, storage, start, end, n, t) ==
    IF n = 0 THEN Ok(storage)
    ELSE Only({IF ~before.ok THEN before
               ELSE DoArithmetic(expr, before.val, RangeCoord(start, end, n), t)
               : before \in {LeftFold(expr, storage, start, end, n - 1, t)}})

\* the text a + row + column of the first n cells of the rectangle, one after the other
RECURSIVE CoordText(_, _, _)
CoordText(start, end, n) ==
    IF n = 0 THEN ""
    ELSE CoordText(start, end, n - 1) \o "a"
             \o Char("0123456789", RangeCoord(start, end, n)[1] + 1)
             \o Char("0123456789", RangeCoord(start, end, n)[2] + 1)

\* the application in call: the closure, the executor once the prescript has run, and
\* the storage cell taken for the script
Applied ==
    LET closure == TableClosureNew(call.args[1]).val
        x1 == ApplyPrescript(closure, ExecState(RangeTable, <<>>, <<>>, ""),
                             call.args[2], call.args[3])
    IN  [closure |-> closure, start |-> call.args[2], end |-> call.args[3], x1 |-> x1,
         got |-> GetStorageCell(Split(closure.script, "!"), x1),
         expr |-> Only({IF got.next <= Len(Split(closure.script, "!"))
                        THEN Split(closure.script, "!")[got.next] ELSE ""
                        : got \in {GetStorageCell(Split(closure.script, "!"), x1)}}),
         reached |-> /\ ~TupleLt(Dimensions(RangeTable), call.args[2])
                     /\ ~TupleLt(Dimensions(RangeTable), call.args[3])
                     /\ x1.err = ""
                     /\ GetStorageCell(Split(closure.script, "!"), x1).x.err = ""]

\* C19: each over a start (r0, c0) and an end (r1, c1) with r0 <= r1 and c0 <= c1
\* evaluates the expression (r1 - r0 + 1) * (c1 - c0 + 1) times, on the cells of the
\* rectangle row after row and left to right within a row, the first time on the storage
\* value taken and every next time on the value the evaluation before returned, and
\* writes the last value into the accumulator's cell; an evaluation that fails ends the
\* application with its error.
C19_EachIsRowMajorLeftFold ==
    (/\ call.fn = "each"
     /\ Applied.reached
     /\ Applied.start[1] <= Applied.end[1]
     /\ Applied.start[2] <= Applied.end[2]) =>
        LET a == Applied
            count == (a.end[1] - a.start[1] + 1) * (a.end[2] - a.start[2] + 1)
            acc == a.x1.accumulator
            fold == LeftFold(a.expr, a.got.cell, a.start, a.end, count, a.got.x.table)
        IN  /\ fold.ok =>
                /\ ret.err = ""
                /\ GetCell(ret.table, acc[1], acc[2]) = Ok(fold.val)
            /\ ~fold.ok => ret.err = fold.err
            /\ a.expr = "~op a + ~cell.x + ~cell.y +" =>
                /\ ret.err = ""
                /\ GetCell(ret.table, acc[1], acc[2]) =
                       Ok(CellString(CellDisplay(a.got.cell)
                                         \o CoordText(a.start, a.end, count)))

\* each was applied over the four cells of the table: their texts are in the
\* accumulator's cell in the order of the rows
C19_FourCellsFolded ==
    /\ MaxRangeRows = 2 /\ MaxRangeCols = 2
    /\ call = [fn |-> "each", args |-> <<"auto;each!acc!~op ~cell +;", <<0, 0>>, <<1, 1>>>>]
    /\ ret.err = ""
    /\ GetCell(ret.table, 2, 1) = Ok(CellString("bcde"))

\* each was applied over a rectangle of two rows and two columns, with its coordinates
EachOverRectangle ==
    /\ call.fn = "each"
    /\ call.args[1] = "auto;each!acc!~op a + ~cell.x + ~cell.y +;"
    /\ call.args[2] = <<0, 0>> /\ call.args[3] = <<1, 1>>
    /\ ret.err = ""
    /\ GetCell(ret.table, 2, 1) = Ok(CellString("a00a01a10a11"))

\* an evaluation of each failed on a cell past the last column
EachFailedMidway ==
    /\ call.fn = "each"
    /\ Applied.reached
    /\ ret.err = "ColumnOutOfBound"

\* C20: raw evaluates the expression once, on the storage value taken and with the
\* start cell of the range (start row, start column) as the current cell, whatever
\* the end of the range is, and writes the value into the accumulator's cell.
C20_RawAtStartCell ==
    (call.fn = "raw" /\ Applied.reached) =>
        LET a == Applied
            acc == a.x1.accumulator
            value == DoArithmetic(a.expr, a.got.cell, a.start, a.got.x.table)
        IN  /\ value.ok =>
                /\ ret.err = ""
                /\ GetCell(ret.table, acc[1], acc[2]) = Ok(value.val)
            /\ ~value.ok => ret.err = value.err

\* raw with the row of the start cell as the row and as the column of the current cell
RawAtRowRow ==
    (call.fn = "raw" /\ Applied.reached) =>
        LET a == Applied
            acc == a.x1.accumulator
            value == DoArithmetic(a.expr, a.got.cell, <<a.start[1], a.start[1]>>,
                                  a.got.x.table)
        IN  /\ value.ok =>
                /\ ret.err = ""
                /\ GetCell(ret.table, acc[1], acc[2]) = Ok(value.val)
            /\ ~value.ok => ret.err = value.err

\* raw was applied from the cell (0, 1): the column it saw is 0
RawSawRowAsColumn ==
    /\ call = [fn |-> "raw",
               args |-> <<"auto;raw!acc!~op a + ~cell.x + ~cell.y +;", <<0, 1>>, <<0, 1>>>>]
    /\ ret.err = ""
    /\ GetCell(ret.table, 1, 1) = Ok(CellString("ea00"))

\* the cell (row, col) is a cell of the table t
InTable(t, row, col) == GetCell(t, row, col).ok

\* C21: the prescript auto binds the accumulator to (end row + 1, start column) of the
\* range; the table gets one empty row more when that cell is not in the table, and no
\* row when it is.
C21_AutoBelowStartColumn ==
    (call.fn = "apply_prescript" /\ call.args[1] = "auto") =>
        LET start == call.args[2]
            end == call.args[3]
        IN  /\ ret.err = ""
            /\ ret.accumulator = <<end[1] + 1, start[2]>>
            /\ ret.table.rows =
                   IF InTable(RangeTable, end[1] + 1, start[2]) THEN RangeTable.rows
                   ELSE Append(RangeTable.rows, RowNew(MaxRangeCols))

\* auto binds the accumulator to (end row + 1, end column)
AutoBelowEndColumn ==
    (call.fn = "apply_prescript" /\ call.args[1] = "auto") =>
        LET end == call.args[3]
        IN  /\ ret.err = ""
            /\ ret.accumulator = <<end[1] + 1, end[2]>>
            /\ Len(ret.table.rows) <= Len(RangeTable.rows) + 1
            /\ InTable(RangeTable, end[1] + 1, end[2]) => ret.table = RangeTable

\* auto was run for a range from column 0 to column 1: the accumulator is in column 1
AutoBoundToEndColumn ==
    /\ call = [fn |-> "apply_prescript", args |-> <<"auto", <<0, 0>>, <<0, 1>>>>]
    /\ ret.accumulator = <<1, 1>>

\* C22: a literal accumulator whose two expressions evaluate to the Numbers x and y
\* binds the accumulator to (ceil(x), ceil(y)) and adds empty rows until the row ceil(x)
\* is a row of the table, so that the accumulator's cell exists when ceil(y) is less than
\* the header width; when one of the two does not evaluate to a Number the prescript
\* fails.
C22_LiteralAccumulatorRowExists ==
    (call.fn = "apply_prescript" /\ Find(call.args[1], ",") # 0) =>
        LET pair == SplitOnce(call.args[1], ",")
            start == call.args[2]
            end == call.args[3]
            x == DoArithmetic(pair.l, CellEmpty, <<end[1] + 1, end[2]>>, RangeTable)
            y == DoArithmetic(pair.r, CellEmpty, start, RangeTable)
        IN  IF x.ok /\ y.ok /\ x.val.tag = "Number" /\ y.val.tag = "Number"
            THEN /\ ret.err = ""
                 /\ ret.accumulator = <<CeilAsUsize(x.val), CeilAsUsize(y.val)>>
                 /\ Len(ret.table.rows) > CeilAsUsize(x.val)
                 /\ \A r \in 1..Len(ret.table.rows) :
                        ret.table.rows[r] = IF r <= Len(RangeTable.rows)
                                            THEN RangeTable.rows[r]
                                            ELSE RowNew(MaxRangeCols)
                 /\ CeilAsUsize(y.val) < MaxRangeCols =>
                        InTable(ret.table, ret.accumulator[1], ret.accumulator[2])
            ELSE ret.err # ""

\* a literal accumulator adds rows until the table has ceil(x) rows: the last row is
\* the row ceil(x) - 1
LiteralAccumulatorRowCount ==
    (call.fn = "apply_prescript" /\ Find(call.args[1], ",") # 0 /\ ret.err = "") =>
        /\ Len(ret.table.rows) =
               IF Len(RangeTable.rows) < ret.accumulator[1] THEN ret.accumulator[1]
               ELSE Len(RangeTable.rows)

\* the accumulator was bound to the row after the last row of the table: there is no
\* such row after the prescript
AccumulatorRowMissing ==
    /\ call.fn = "apply_prescript"
    /\ call.args[1] = "~cell.x,0"
    /\ call.args[3][1] = MaxRangeRows - 1
    /\ ret.err = ""
    /\ ret.accumulator = <<MaxRangeRows, 0>>
    /\ ret.table = RangeTable

\* the application in call has passed the range check and its prescript
PrescriptDone ==
    /\ ~TupleLt(Dimensions(RangeTable), call.args[2])
    /\ ~TupleLt(Dimensions(RangeTable), call.args[3])
    /\ Applied.x1.err = ""

\* the storage the script of the application in call names, and its register number
StorageNamed ==
    LET reader == Split(Applied.closure.script, "!")
    IN  [given |-> Len(reader) >= 2,
         word |-> IF Len(reader) >= 2 THEN Trim(reader[2]) ELSE "",
         reg_id |-> IF Len(reader) >= 3 THEN ParseUsize(reader[3]) ELSE ParseUsize("")]

\* C23: the storage a script names is looked up before the expression is evaluated:
\* acc fails when the prescript bound no accumulator, reg N fails when N is not less
\* than the number of registers the prescript allocated, another word fails; after
\* each of these failures the table is the table the prescript left.
C23_StorageCheckedFirst ==
    (call.fn = "storage" /\ PrescriptDone) =>
        LET x1 == Applied.x1
            s == StorageNamed
        IN  /\ (s.word = "acc" /\ x1.accumulator = <<>>) =>
                   ret.err = "MissingAccumulator" /\ ret.table = x1.table
            /\ (s.word = "reg" /\ s.reg_id.ok /\ s.reg_id.v >= Len(x1.registers)) =>
                   ret.err = "RegisterOutOfRange" /\ ret.table = x1.table
            /\ (s.given /\ s.word \notin {"acc", "reg"}) =>
                   ret.err = "InvalidStorage" /\ ret.table = x1.table
            /\ ~s.given => ret.err = "StorageMissing" /\ ret.table = x1.table

\* a script named the register 2 of two registers: the apply failed on the register,
\* not on its expression, and the table is as it was
C23_RegisterPastTheLast ==
    /\ call.fn = "storage"
    /\ call.args[1] = "reg!2;each!reg!2!+;"
    /\ ret.err = "RegisterOutOfRange"
    /\ ret.table = RangeTable

\* acc was named with no accumulator bound
AccWithoutAccumulator ==
    /\ call.fn = "storage"
    /\ call.args[1] = "reg!2;each!acc!+;"
    /\ ret.err = "MissingAccumulator"

\* C24: a result computed on a register is written nowhere: after an apply whose
\* script names reg the table is the table the prescript left; a result computed on
\* acc is in the accumulator's cell.
C24_RegisterResultNotWritten ==
    (call.fn = "storage" /\ PrescriptDone /\ ret.err = "") =>
        /\ StorageNamed.word = "reg" => ret.table = Applied.x1.table
        /\ (/\ StorageNamed.word = "acc"
            /\ call.args[2][1] <= call.args[3][1]
            /\ call.args[2][2] <= call.args[3][2]) =>
               GetCell(ret.table, Applied.x1.accumulator[1], Applied.x1.accumulator[2]) =
                   LeftFold(Applied.expr, Applied.got.cell, call.args[2], call.args[3],
                            (call.args[3][1] - call.args[2][1] + 1)
                                * (call.args[3][2] - call.args[2][2] + 1),
                            Applied.got.x.table)

\* a result computed on a register is in the accumulator's cell when the prescript
\* bound an accumulator, and nowhere when it bound none
RegisterResultInAccumulator ==
    (call.fn = "storage" /\ PrescriptDone /\ ret.err = "" /\ StorageNamed.word = "reg") =>
        IF Applied.x1.accumulator = <<>> THEN ret.table = Applied.x1.table
        ELSE \A row \in 0..Len(ret.table.rows) : \A col \in 0..MaxRangeCols :
                 <<row, col>> # Applied.x1.accumulator =>
                     GetCell(ret.table, row, col) = GetCell(Applied.x1.table, row, col)

\* the text of the first cell, computed on register 0, is in the accumulator's cell
RegisterResultWritten ==
    /\ call = [fn |-> "storage",
               args |-> <<"auto!reg!1;each!reg!0!~op ~cell +;", <<0, 0>>, <<0, 0>>>>]
    /\ ret.err = ""
    /\ GetCell(ret.table, 1, 0) = Ok(CellString("b"))

\* the script of a closure up to the end of its first command: the command, its
\* storage, its register number if the storage is reg, and its expression
FirstCommand(script) ==
    LET reader == Split(script, "!")
        n == IF Len(reader) >= 2 /\ Trim(reader[2]) = "reg" THEN 4 ELSE 3
    IN  Join(SubSeq(reader, 1, IF Len(reader) < n THEN Len(reader) ELSE n), "!")

\* C25: an apply runs one command of the script: the tokens after the first each or
\* raw and its storage and expression change nothing; after the command the executor
\* has no registers and no accumulator; a script whose first token is neither each nor
\* raw fails.
C25_OneCommandThenPostscript ==
    (call.fn = "script" /\ PrescriptDone) =>
        LET closure == Applied.closure
            command == Trim(Split(closure.script, "!")[1])
        IN  /\ ret = ClosureApply([closure EXCEPT !.script = FirstCommand(closure.script)],
                                  RangeTable, call.args[2], call.args[3])
            /\ ret.err = "" => ret.registers = <<>> /\ ret.accumulator = <<>>
            /\ command \notin {"each", "raw"} => ret.err = "InvalidToken"

\* a script of two commands was applied: the second, which would have left the text a
\* in the accumulator's cell, was not run, and the executor was reset
C25_SecondCommandNotRun ==
    /\ call = [fn |-> "script",
               args |-> <<"auto!reg!2;each!acc!~op ~cell +!raw!acc!a;", <<0, 0>>, <<0, 1>>>>]
    /\ ret.err = ""
    /\ ret.registers = <<>>
    /\ ret.accumulator = <<>>
    /\ GetCell(ret.table, 1, 1) = Ok(CellString("e" \o "bc"))

\* the five operators of the evaluator the expressions are written in
ArithmeticSymbols == {"+", "-", "*", "/", "%"}

\* the value a token of the expressions pushes when it is no operator
Pushed(token) ==
    CASE token = "~op" -> CellString("s")
      [] token = "~cell.y" -> CellNumber(1, 1)
      [] OTHER -> CellFromStr(token).val

\* the number of values on the stack after the first k tokens of a stream of values and
\* arithmetic operators, -1 once an operator has met fewer than two values
RECURSIVE Depth(_, _)
Depth(tokens, k) ==
    IF k = 0 THEN 0
    ELSE Only({IF before < 0 THEN -1
               ELSE IF tokens[k] \in ArithmeticSymbols
               THEN IF before < 2 THEN -1 ELSE before - 1
               ELSE before + 1
               : before \in {Depth(tokens, k - 1)}})

\* C26: a binary operator of the postfix evaluator takes the value pushed last as its
\* right operand and the one below it as its left operand and pushes op(left, right),
\* so that 5 3 - is 2; an operator that finds fewer than two values is an error; at
\* the end of the tokens more than one value is an error, no value is Empty and one
\* value is the result.
C26_PostfixOperandOrder ==
    (/\ call.fn = "do_artihmetic"
     /\ \A k \in 1..Len(call.args[1]) : call.args[1][k] \notin {"&", "^", "~fn"}) =>
        LET tokens == call.args[1]
            depth == Depth(tokens, Len(tokens))
        IN  /\ depth < 0 => ~ret.ok
            /\ depth > 1 => ~ret.ok
            /\ depth = 0 => ret = Ok(CellEmpty)
            /\ (Len(tokens) = 1 /\ depth = 1) => ret = Ok(Pushed(tokens[1]))
            /\ (Len(tokens) = 3 /\ depth = 1 /\ tokens[3] \in ArithmeticSymbols) =>
                   ret = OperationApply(tokens[3], Pushed(tokens[1]), Pushed(tokens[2]))
            /\ (Len(tokens) <= 2 /\ depth < 0) => ret.err = "NotEnoughOperands"
            /\ (depth > 1 /\ \A k \in 1..Len(tokens) : tokens[k] \notin ArithmeticSymbols) =>
                   ret.err = "TooManyValues"
            /\ tokens = <<"5", "3", "-">> => ret = Ok(CellNumber(2, 1))
            /\ tokens = <<"3", "5", "-">> => ret = Ok(CellNumber(-2, 1))
            /\ tokens = <<"3", "5", "/">> => ret = Ok(CellNumber(3, 5))
            /\ tokens = <<"~op", "x", "+">> => ret = Ok(CellString("sx"))

\* 5 3 - was evaluated to 2
C26_FiveMinusThree ==
    /\ call = [fn |-> "do_artihmetic", args |-> <<(<<"5", "3", "-">>)>>]
    /\ ret = Ok(CellNumber(2, 1))

\* an operator met one value, and an expression left two values
OperatorUnderflow ==
    /\ call = [fn |-> "do_artihmetic", args |-> <<(<<"5", "-">>)>>]
    /\ ret.err = "NotEnoughOperands"

\* C27: a token of the postfix evaluator that is no cell reference, not ~op and none
\* of + - * / % is parsed as a Cell literal and pushed as one value, and its
\* evaluation neither fails nor ends the interpreter; &, |, ^ and ~fn are such tokens.
C27_OtherTokensAreLiterals ==
    (/\ call.fn = "do_artihmetic"
     /\ \A k \in 1..Len(call.args[1]) : call.args[1][k] \notin ArithmeticSymbols) =>
        LET tokens == call.args[1]
        IN  /\ Len(tokens) = 0 => ret = Ok(CellEmpty)
            /\ Len(tokens) = 1 => ret = Ok(Pushed(tokens[1]))
            /\ Len(tokens) > 1 => ret.err = "TooManyValues"

\* the literals among the tokens are pushed, one value each
LiteralTokensPushed ==
    (/\ call.fn = "do_artihmetic"
     /\ \A k \in 1..Len(call.args[1]) :
            call.args[1][k] \notin ArithmeticSymbols \cup {"&", "^", "~fn"}) =>
        LET tokens == call.args[1]
        IN  /\ Len(tokens) = 0 => ret = Ok(CellEmpty)
            /\ Len(tokens) = 1 => ret = Ok(Pushed(tokens[1]))
            /\ Len(tokens) > 1 => ret.err = "TooManyValues"

\* 3 5 & reached the todo!() of Operation::apply
AndReachedTodo ==
    /\ call = [fn |-> "do_artihmetic", args |-> <<(<<"3", "5", "&">>)>>]
    /\ ret.err = "Panic"

\* ~fn and the token after it pushed nothing
FnPushedNothing ==
    /\ call = [fn |-> "do_artihmetic", args |-> <<(<<"~fn", "3">>)>>]
    /\ ret = Ok(CellEmpty)

\* the cell lies outside a table of the given dimensions
OutOfTable(dimensions, cell) == cell[1] >= dimensions[1] \/ cell[2] >= dimensions[2]

\* C28: an apply whose start or end cell has a row not less than the number of rows of
\* the table, or a column not less than its header width, fails with the out-of-range
\* error before the prescript runs: the table, its number of rows too, is as it was.
C28_OutOfRangeBeforePrescript ==
    (/\ call.fn \in {"each", "raw", "storage", "script"}
     /\ \/ OutOfTable(Dimensions(RangeTable), call.args[2])
        \/ OutOfTable(Dimensions(RangeTable), call.args[3])) =>
        /\ ret.err = "CellOutOfRange"
        /\ ret.table = RangeTable

\* the range check fails exactly when the dimensions are before the start or the end
\* cell in the order of pairs, and then the table is as it was
RangeCheckIsLexicographic ==
    call.fn \in {"each", "raw", "storage", "script"} =>
        /\ ret.err = "CellOutOfRange" <=>
               \/ TupleLt(Dimensions(RangeTable), call.args[2])
               \/ TupleLt(Dimensions(RangeTable), call.args[3])
        /\ ret.err = "CellOutOfRange" => ret.table = RangeTable

\* an apply on the column after the last one passed the range check: the prescript
\* added a row before the apply failed on the column
RowAddedBeforeFailure ==
    /\ call = [fn |-> "each",
               args |-> <<"auto;each!acc!~op ~cell +;", <<0, MaxRangeCols>>,
                          <<0, MaxRangeCols>>>>]
    /\ ret.err = "ColumnOutOfBound"
    /\ Len(ret.table.rows) = MaxRangeRows + 1

\* an apply from a row two past the last one failed on the range check
RangeCheckFailed ==
    /\ call.fn = "each"
    /\ call.args[2] = <<MaxRangeRows + 1, 0>>
    /\ ret.err = "CellOutOfRange"
    /\ ret.table = RangeTable

\* C29: a define line stores, under the name of the line, the closure whose prescript,
\* script and postscript are the first, second and third segments between the `;` of
\* the definition, the tokens of the definition joined by one space each; what follows
\* the third segment is not stored.
C29_DefineStoresThreeSegments ==
    \A line \in DefineLines :
        (code_text = line.text /\ result = "Ok") =>
            /\ line.name \in DOMAIN closure_idx
            /\ closure_idx[line.name] < Len(closures)
            /\ closures[closure_idx[line.name] + 1] =
                   [prescript |-> line.pre, script |-> line.scr, postscript |-> line.post]

\* f was defined by a text of five segments: the closure holds the first three
C29_LongDefinitionStored ==
    /\ code_text = "f define 0,0;raw!acc!~cell;p;rest;more"
    /\ result = "Ok"
    /\ closures[closure_idx["f"] + 1] =
           [prescript |-> "0,0", script |-> "raw!acc!~cell", postscript |-> "p"]

\* the name-to-index map idx of the sequence store is one to one onto its indices
KeyedStore(idx, store) ==
    /\ \A a \in DOMAIN idx : \A b \in DOMAIN idx : idx[a] = idx[b] => a = b
    /\ \A a \in DOMAIN idx : idx[a] \in 0..(Len(store) - 1)
    /\ Len(store) = Cardinality(DOMAIN idx)

\* a step keeps the index of every name of idx, and makes the store longer by the
\* names that are new
KeyedStoreStep(idx, idxAfter, store, storeAfter) ==
    /\ \A a \in DOMAIN idx : a \in DOMAIN idxAfter /\ idxAfter[a] = idx[a]
    /\ Len(storeAfter) = Len(store) + Cardinality(DOMAIN idxAfter \ DOMAIN idx)
    /\ Cardinality(DOMAIN idxAfter \ DOMAIN idx) <= 1

\* C30: after any lines the map of the table names and the map of the closure names
\* are one to one, every index is an index of the sequence behind the map, the
\* sequence is as long as the map has names, and each table has the name it is stored
\* under as its identifier; a line never changes the index of a name, and making a
\* name again writes over its slot and appends nothing.
C30_NameKeyedStores ==
    /\ [](/\ KeyedStore(tables_idx, tables)
          /\ KeyedStore(closure_idx, closures)
          /\ \A a \in DOMAIN tables_idx : tables[tables_idx[a] + 1].ident = a)
    /\ [][/\ KeyedStoreStep(tables_idx, tables_idx', tables, tables')
          /\ KeyedStoreStep(closure_idx, closure_idx', closures, closures')]_vars

\* t, made first, was made again after u and f: it is in its first slot, with its new
\* title, and there are three tables
C30_RecreatedInPlace ==
    /\ code_text = "t = with title \"U\" and headers \"H1\""
    /\ result = "Ok"
    /\ tables_idx = ("t" :> 0) @@ ("u" :> 1) @@ ("f" :> 2)
    /\ Len(tables) = 3
    /\ tables[1].title = "U"
    /\ tables[1].ident = "t"

\* f, defined first, was defined again after g: two closures, f in slot 0
RedefinedInPlace ==
    /\ code_text = "f define 0,0;raw!acc!~cell;p;rest;more"
    /\ closure_idx = ("f" :> 0) @@ ("g" :> 1)
    /\ Len(closures) = 2
    /\ closures[1].prescript = "0,0"

\* the letters listed as next to letter a in build_keyboard_distances
Adjacent(a) ==
    {Char(Keyboard[LetterIndex[a] + 1], i) : i \in 1..Len(Keyboard[LetterIndex[a] + 1])}

\* the letters reached from a by following listed neighbours at most k times
RECURSIVE Within(_, _)
Within(a, k) ==
    IF k = 0 THEN {a}
    ELSE LET near == Within(a, k - 1) IN near \cup UNION {Adjacent(c) : c \in near}

\* the length of a shortest path from a to b in the adjacency graph
ShortestHops(a, b) ==
    CHOOSE k \in 0..Len(Keyboard) :
        /\ b \in Within(a, k)
        /\ k > 0 => b \notin Within(a, k - 1)

\* C31: for every ordered pair of letters (a, b) the precomputed keyboard distance is
\* the length of a shortest path from a to b along the listed neighbours, and it is 0
\* exactly when a = b.
C31_KeyboardDistanceIsShortestHops ==
    call.fn = "lookup" =>
        /\ ret = Ok(ShortestHops(call.args[1], call.args[2]))
        /\ ret = Ok(0) <=> call.args[1] = call.args[2]

\* the distance is 0 exactly when the two letters are the same, and never less than
\* the length of a shortest path
KeyboardDistanceZeroOnEqual ==
    call.fn = "lookup" =>
        /\ ret = Ok(0) <=> call.args[1] = call.args[2]
        /\ ret.ok /\ ret.val >= ShortestHops(call.args[1], call.args[2])

\* b to c is two hops (b, v, c) and was looked up as three
KeyboardDistanceTooLong ==
    /\ call = [fn |-> "lookup", args |-> <<"b", "c">>]
    /\ ShortestHops("b", "c") = 2
    /\ ret = Ok(3)

\* the right operand of a % b is Number(0) or Boolean(false)
ZeroDivisor == \/ cellB.tag = "Number" /\ cellB.n = 0
               \/ cellB.tag = "Boolean" /\ ~cellB.b

\* C32: a % b fails only when b is Number(0), Boolean(false) or neither Number nor
\* Boolean, or when an operand is Text; for every a that is Number, Boolean or Empty and
\* every b that is a non-zero Number or Boolean(true), a % b returns a Cell.
C32_ModuloFailsOnRightOperandOrText ==
    cellOp = "%" =>
        /\ ~cellRes.ok =>
               \/ ZeroDivisor
               \/ cellB.tag \notin {"Number", "Boolean"}
               \/ cellA.tag = "String" \/ cellB.tag = "String"
        /\ (/\ cellA.tag \in {"Number", "Boolean", "Empty"}
            /\ cellB.tag \in {"Number", "Boolean"}
            /\ ~ZeroDivisor) => cellRes.ok

\* C32 as the code has it: a % b fails exactly when a is neither Number nor Boolean
\* (Text or Empty), or b is Number(0), Boolean(false) or neither Number nor Boolean;
\* otherwise it returns a Number, the remainder with the sign of a.
C32_ModuloFailsOnEitherOperand ==
    cellOp = "%" =>
        /\ ~cellRes.ok <=>
               \/ cellA.tag \notin {"Number", "Boolean"}
               \/ cellB.tag \notin {"Number", "Boolean"}
               \/ ZeroDivisor
        /\ cellRes.ok =>
               LET ln == IF cellA.tag = "Number" THEN cellA.n ELSE BoolAsNum(cellA.b)
                   ld == IF cellA.tag = "Number" THEN cellA.d ELSE 1
                   rn == IF cellB.tag = "Number" THEN cellB.n ELSE 1
                   rd == IF cellB.tag = "Number" THEN cellB.d ELSE 1
                   diff == NumSub(ln, ld, cellRes.val.n, cellRes.val.d)
                   quot == NumDiv(diff.n, diff.d, rn, rd)
               IN  /\ cellRes.val.tag = "Number"
                   /\ quot.d = 1
                   /\ Abs(cellRes.val.n) * rd < Abs(rn) * cellRes.val.d
                   /\ cellRes.val.n = 0 \/ (cellRes.val.n < 0 <=> ln < 0)

\* Empty % Number(2) has failed
C32_EmptyModuloTwoFailed ==
    /\ cellOp = "%"
    /\ cellA = CellEmpty
    /\ cellB = CellNumber(2, 1)
    /\ ~cellRes.ok

\* Number(-1) % Number(2) is Number(-1), and Number(1/2) % Boolean(true) is Number(1/2)
ModuloReturnedNumber ==
    /\ cellOp = "%"
    /\ cellRes.ok
    /\ \/ cellA = CellNumber(-1, 1) /\ cellB = CellNumber(2, 1)
             /\ cellRes.val = CellNumber(-1, 1)
       \/ cellA = CellNumber(1, 2) /\ cellB = CellBoolean(TRUE)
             /\ cellRes.val = CellNumber(1, 2)

\* the VM as a call left it, without its cursor
Stores(vm) == <<vm.code_text, vm.tables, vm.tables_idx, vm.closure_idx, vm.closures>>

\* the text of vm from its cursor to the next line terminator, or to its end
LineAtCursor(vm) == Split(ByteSlice(vm.code_text, vm.pointer, ByteLen(vm.code_text)), "\n")[1]

\* the lines of vm from its cursor on, each without its terminator
LinesFromCursor(vm) ==
    LET rest == ByteSlice(vm.code_text, vm.pointer, ByteLen(vm.code_text))
        pieces == Split(rest, "\n")
    IN  IF rest = "" THEN <<>>
        ELSE IF pieces[Len(pieces)] = "" THEN SubSeq(pieces, 1, Len(pieces) - 1)
        ELSE pieces

\* the lines from the k-th on taken in order, each once, up to the first that fails
RECURSIVE RunLines(_, _, _)
RunLines(vm, lines, k) ==
    IF k > Len(lines) THEN Outcome(vm, "Ok", "")
    ELSE LET at == [vm EXCEPT !.pointer = @ + ByteLen(lines[k]) + 1]
             o == IF Trim(lines[k]) = "" THEN Outcome(at, "Ok", "")
                  ELSE Dispatch(at, Trim(lines[k]), "Ok")
         IN  IF o.res = "Ok" THEN RunLines(o.vm, lines, k + 1) ELSE o

\* the call of interpret_next_line made on `before` took the one line at the cursor:
\* the cursor is past that line and its terminator, a whitespace-only line changed
\* nothing else, any other line was carried out and nothing more
NextLineConsumed(before) ==
    LET line == LineAtCursor(before)
        at == [before EXCEPT !.pointer = @ + ByteLen(line) + 1]
    IN  /\ pointer = before.pointer + ByteLen(line) + 1
        /\ pointer > before.pointer
        /\ Trim(line) = "" => result = "Ok" /\ Stores(TheVM) = Stores(before)
        /\ Trim(line) # "" =>
               LET o == Dispatch(at, Trim(line), "Ok")
               IN  TheVM = o.vm /\ result = o.res

\* the call of interpret made on `before` took the lines from the cursor on in order,
\* each once, and stopped at the first that failed or at the end of the text
InterpretRan(before) ==
    LET o == RunLines(before, LinesFromCursor(before), 1)
    IN  /\ TheVM = o.vm
        /\ result = o.res
        /\ result = "Ok" => pointer >= ByteLen(code_text)

\* C33: every call of interpret_next_line consumes exactly one line and moves the
\* cursor past it and its terminator, whether the line succeeds or not; interpret ends
\* on every text, takes the lines in order each at most once and stops at the first
\* failing line; a whitespace-only line changes nothing but the cursor; and a call of
\* interpret_next_line after the whole text has been consumed does not abort.
C33_NextLineConsumesOneLine ==
    /\ call.fn = "interpret_next_line" =>
           /\ result # "Panic"
           /\ NextLineConsumed(call.args[1])
    /\ call.fn = "interpret" =>
           /\ result # "Panic"
           /\ InterpretRan(call.args[1])

\* the same for the calls of interpret_next_line made with the cursor within the text
\* or at its end, where it holds
NextLineWithinText ==
    /\ (/\ call.fn = "interpret_next_line"
        /\ call.args[1].pointer <= ByteLen(call.args[1].code_text)) =>
           /\ result # "Panic"
           /\ NextLineConsumed(call.args[1])
    /\ call.fn = "interpret" =>
           /\ result # "Panic"
           /\ InterpretRan(call.args[1])

\* interpret_next_line was called after the last line, which had no terminator, and
\* the slice of code_text from the cursor panicked
NextLinePastEndPanicked ==
    /\ call.fn = "interpret_next_line"
    /\ call.args[1].code_text = "t create"
    /\ call.args[1].pointer = ByteLen("t create") + 1
    /\ result = "Panic"

\* a failing second line was consumed and the third line was not
FailedLineConsumed ==
    /\ call.fn = "interpret_next_line"
    /\ code_text = "t create\nx view\nt view"
    /\ call.args[1].pointer = 9
    /\ pointer = 16
    /\ result \notin {"Ok", "Panic"}

\* the position in s of the first character of its k-th token, looked for from i on
RECURSIVE TokenStart(_, _, _)
TokenStart(s, i, k) ==
    IF IsWhitespace(Char(s, i)) THEN TokenStart(s, i + 1, k)
    ELSE IF k = 1 THEN i
    ELSE TokenStart(s, TokenEnd(s, i), k - 1)

\* the byte offset in s of the first byte of its k-th token
TokenOffset(s, k) == ByteLen(SubSeq(s, 1, TokenStart(s, 1, k) - 1))

\* the line, as the report echoes it, of the call of interpret_next_line made on before
Echoed(before) == Trim(LineAtCursor(before))

\* C34: in every error report the number of spaces before the first caret is the byte
\* offset, in the echoed line, of the first byte of the token the report is about,
\* for any amount of whitespace between the tokens and after any number of literals.
C34_CaretsUnderOffendingToken ==
    (call.fn = "interpret_next_line" /\ ret.ok /\ ret.val.at > 0) =>
        ret.val.spaces = TokenOffset(Echoed(call.args[1]), ret.val.at)

\* the same for the lines whose tokens are one space apart, where it holds; and a
\* line of carets is made only for a line that failed, one caret for each byte of the
\* token
SingleSpacedCaretsUnderToken ==
    (call.fn = "interpret_next_line" /\ ret.ok) =>
        /\ result \notin {"Ok", "Panic"}
        /\ ret.val.at > 0 =>
               /\ ret.val.carets = ByteLen(SplitWhitespace(Echoed(call.args[1]))[ret.val.at])
               /\ Find(Echoed(call.args[1]), "  ") = 0 =>
                      ret.val.spaces = TokenOffset(Echoed(call.args[1]), ret.val.at)

\* the operator viw is two spaces after the table name, at byte 3, and the carets are
\* after 2 spaces
CaretsLeftOfToken ==
    /\ call.fn = "interpret_next_line"
    /\ Echoed(call.args[1]) = "t  viw"
    /\ result = "InvalidOperator"
    /\ ret = Carets(2, 3, 2)
    /\ TokenOffset("t  viw", 2) = 3

\* a token after a literal of two words, all one space apart, has the carets under it
CaretsAfterLiteral ==
    /\ call.fn = "interpret_next_line"
    /\ Echoed(call.args[1]) = "t add_row \"a b\" x"
    /\ ret = Carets(16, 1, 5)

\* a line of carets is made for exactly the errors whose report has one
CaretsForReportedErrors ==
    call.fn = "interpret_next_line" =>
        (ret.ok <=> result \in {"NoOperator", "InvalidOperator", "NoTableFound",
                                "StringLiteralNotFound", "NoModifierToken",
                                "InvalidModifier", "NoModifierData", "NoClosureName",
                                "UndefinedClosure", "NoRowIndex", "NoColumnIndex"})

\* an unsigned integer as str::parse::<usize> reads it: digits, a + before them or not
Unsigned(s) ==
    LET digits == IF Len(s) > 0 /\ Char(s, 1) = "+" THEN StrFrom(s, 2) ELSE s
    IN  /\ digits # ""
        /\ \A i \in 1..Len(digits) : Char(digits, i) \in {"0", "1", "2", "3", "4", "5", "6", "7", "8", "9"}

\* C35: an apply line needs its first pair of coordinates: when the pair is missing or
\* is not two unsigned integers the line fails and the closure is not invoked; when
\* the second pair is absent the end of the range is the start cell and the closure is
\* applied to that one cell.
C35_ApplyCoordinatePairs ==
    [][\A text \in CoordinateTexts \cup {ApplyText("t", "sum", coords) : coords \in ApplyRanges} :
           (/\ code_text' = text
            /\ "t" \in DOMAIN tables_idx
            /\ "sum" \in DOMAIN closure_idx) =>
               LET token == SplitWhitespace(text)
                   slot == tables_idx["t"] + 1
               IN  IF Len(token) < 5 \/ ~Unsigned(token[4]) \/ ~Unsigned(token[5])
                   THEN /\ result' \in {"NoRowIndex", "NoColumnIndex", "ParseInt"}
                        /\ UNCHANGED <<tables, tables_idx, closures, closure_idx>>
                   ELSE Len(token) = 5 =>
                            LET start == <<ParseUsize(token[4]).v, ParseUsize(token[5]).v>>
                                x == ClosureApply(closures[closure_idx["sum"] + 1],
                                                  tables[slot], start, start)
                            IN  /\ tables' = [tables EXCEPT ![slot] = x.table]
                                /\ result' = IF x.err = "" THEN "Ok" ELSE x.err]_vars

\* sum was applied to the one cell (0, 1) of a table of one row, and added a row
C35_AppliedToStartCell ==
    /\ code_text = "t apply sum 0 1"
    /\ result = "Ok"
    /\ "t" \in DOMAIN tables_idx
    /\ Len(tables[tables_idx["t"] + 1].rows) = 2

\* a first pair that is not two unsigned integers was refused
FirstPairRefused ==
    /\ code_text = "t apply sum -1 0"
    /\ result = "ParseInt"
    /\ "sum" \in DOMAIN closure_idx
    /\ "t" \in DOMAIN tables_idx

\* the closures of ExecutorSetup are the ones defined under their names
ExecutorClosures ==
    /\ {"r", "n", "q"} \subseteq DOMAIN closure_idx
    /\ closures[closure_idx["r"] + 1] = TableClosureRec("auto!reg!1", "each!reg!0!~op ~cell +", "")
    /\ closures[closure_idx["n"] + 1] = TableClosureRec("reg!1", "each!acc!~op ~cell +", "")
    /\ closures[closure_idx["q"] + 1] = TableClosureRec("auto", "each!reg!0!~op ~cell +", "")

\* C36: the state of the executor does not pass from one application to the next:
\* whatever was applied before, an application starts with no accumulator bound, so n
\* fails for want of one, with no register but those of its own prescript, so q fails
\* for want of register 0, and with those registers Empty, so what r folds from
\* register 0 is the fold of the range from Empty.
C36_ExecutorStartsFresh ==
    [][\A text \in ExecutorTexts :
           (/\ code_text' = text
            /\ "t" \in DOMAIN tables_idx
            /\ ExecutorClosures) =>
               LET token == SplitWhitespace(text)
                   slot == tables_idx["t"] + 1
                   start == <<ParseUsize(token[4]).v, ParseUsize(token[5]).v>>
                   end == IF Len(token) = 7
                          THEN <<ParseUsize(token[6]).v, ParseUsize(token[7]).v>>
                          ELSE start
                   cells == (end[1] - start[1] + 1) * (end[2] - start[2] + 1)
               IN  /\ token[3] = "n" =>
                          /\ result' \in {"MissingAccumulator", "CellOutOfRange"}
                          /\ tables' = tables
                   /\ token[3] = "q" =>
                          result' \in {"RegisterOutOfRange", "CellOutOfRange"}
                   /\ (token[3] = "r" /\ result' = "Ok") =>
                          Ok(tables'[slot].rows[end[1] + 2][end[2] + 1])
                              = LeftFold("~op ~cell +", CellEmpty, start, end, cells,
                                         tables[slot])]_vars

\* r was applied to a cell holding 5 after sum had been, and left 5 in the row below
\* once more; n was applied after r and found no accumulator
C36_AppliedAfterAnother ==
    /\ ExecutorClosures
    /\ "sum" \in DOMAIN closure_idx
    /\ "t" \in DOMAIN tables_idx
    /\ Len(tables[tables_idx["t"] + 1].rows) = 2
    /\ tables[tables_idx["t"] + 1].rows[2][1] = CellNumber(5, 1)
    /\ \/ code_text = "t apply r 0 0" /\ result = "Ok"
       \/ code_text = "t apply n 0 0" /\ result = "MissingAccumulator"

\* the application in call took its storage value from the accumulator's cell and then
\* failed on its expression
EvaluationFailed ==
    /\ call.fn \in {"each", "raw", "storage", "script", "failing"}
    /\ Applied.reached
    /\ Trim(Split(Applied.closure.script, "!")[1]) \in {"each", "raw"}
    /\ Trim(Split(Applied.closure.script, "!")[2]) = "acc"
    /\ Applied.expr # ""
    /\ ret.err # ""

\* C37: when the evaluation of the expression fails during each or raw with acc
\* storage, the application fails and the accumulator's cell is left Empty: the value
\* it held has been taken and is neither put back nor replaced by what the fold had
\* reached, and every other cell keeps its value.
C37_FailedEvaluationEmptiesAccumulator ==
    EvaluationFailed =>
        LET acc == Applied.x1.accumulator
        IN  /\ GetCell(ret.table, acc[1], acc[2]) = Ok(CellEmpty)
            /\ ret.table.headers = RangeTable.headers
            /\ \A i \in 1..Len(RangeTable.rows) : \A j \in 1..Len(RangeTable.rows[i]) :
                   <<i - 1, j - 1>> # acc => ret.table.rows[i][j] = RangeTable.rows[i][j]
            /\ \A i \in (Len(RangeTable.rows) + 1)..Len(ret.table.rows) :
                   \A j \in 1..Len(ret.table.rows[i]) : ret.table.rows[i][j] = CellEmpty

\* the fold over (0, 0) and (0, 1) failed on its second cell with a division by zero,
\* and the cell (0, 0), which held b, is Empty, not b and not b1
C37_DivisionByZeroMidway ==
    /\ call = [fn |-> "failing",
               args |-> <<"0,0;each!acc!~op 1 1 ~cell.y - / +;", <<0, 0>>, <<0, 1>>>>]
    /\ RangeTable.rows[1][1] = CellString("b")
    /\ LeftFold("~op 1 1 ~cell.y - / +", CellString("b"), <<0, 0>>, <<0, 1>>, 1, RangeTable)
           = Ok(CellString("b1"))
    /\ ret.err = "DivideByZero"
    /\ ret.table.rows[1][1] = CellEmpty

\* raw failed on a text multiplied by a text, and its accumulator's cell is Empty
RawFailedOnText ==
    /\ call.fn = "failing"
    /\ call.args[1] = "0,1;raw!acc!~op ~cell *;"
    /\ EvaluationFailed
    /\ ret.err = "BadOperand"
    /\ ret.table.rows[1][2] = CellEmpty

\* text is a define line
IsDefineLine(text) ==
    /\ Len(SplitWhitespace(text)) >= 2
    /\ SplitWhitespace(text)[2] = "define"

\* the number of `;` in the definition of the define line text
Semicolons(text) ==
    Len(Split(Join(SubSeq(SplitWhitespace(text), 3, Len(SplitWhitespace(text))), " "), ";")) - 1

\* C38: a define line never aborts the interpreter: whatever the definition is, the
\* empty one and those of fewer than two `;` included, the line stores the closure or
\* fails with an error value, and when it fails the closures are as they were.
C38_DefineNeverAborts ==
    [][IsDefineLine(code_text') =>
           /\ result' # "Panic"
           /\ result' # "Ok" => UNCHANGED <<closures, closure_idx>>]_vars

\* the same for the definitions of two `;` or more, which are all stored; one of fewer
\* panics and nothing is stored
DefineOfThreeSegmentsStored ==
    [][IsDefineLine(code_text') =>
           IF Semicolons(code_text') >= 2
           THEN /\ result' = "Ok"
                /\ SplitWhitespace(code_text')[1] \in DOMAIN closure_idx'
           ELSE /\ result' = "Panic"
                /\ UNCHANGED <<closures, closure_idx>>]_vars

\* the definition auto has no `;`, and the line panicked
DefinePanicked ==
    /\ code_text = "g define auto"
    /\ Semicolons(code_text) = 0
    /\ result = "Panic"

\* the empty definition panicked as well
EmptyDefinePanicked ==
    /\ code_text = "g define"
    /\ result = "Panic"

====
